---- MODULE Spec2Model ----
(***************************************************************************)
(* Model of the rollback-capable component storage of decs:                *)
(*   src/src/storage.rs  (Storage, Page, Chunk: set / remove / rollback /  *)
(*                        spawn / clear_changed_masks)                     *)
(*   src/src/rollback.rs (RollbackStorage, RollbackPage, RollbackChunk)    *)
(*   src/src/pool.rs     (Pool: alloc_*_to_slot / free / free_chunk /      *)
(*                        free_page)                                       *)
(*   src/src/view.rs     (ViewMut::deref_mut)                              *)
(*                                                                         *)
(* A 64-bit mask is the set of its set bits (a subset of 0..63); |= is     *)
(* union, &= !bit is set difference, trailing_zeros/trailing_ones runs     *)
(* visit the bits in ascending order.  Raw pointers are heap addresses     *)
(* (naturals); address 0 is the shared default page / default chunk.       *)
(* Values of the component type are tuples, <<>> is an uninitialised       *)
(* MaybeUninit cell.                                                       *)
(***************************************************************************)
EXTENDS Integers, Sequences, FiniteSets, TLC

VARIABLES st, current_tick, idxs, vals, budget, hist, pat, last_op, rollbacks,
          issued, sched, other

vars == <<st, current_tick, idxs, vals, budget, hist, pat, last_op, rollbacks,
          issued, sched, other>>

----------------------------------------------------------------------------
(* Bounds of the model *)

MaxTick == 2

MaxTickTree == 1

MaxOps == 5

MaxOpsTree == 5

MaxOpsWindow == 2

WindowMin == 32

WindowMax == 33

MaxGen == 2

MaxOpsBeyond == 1

BeyondMin == 65

BeyondMax == 66

MaxOpsEntity == 4

MaxOpsQuery == 5

MaxOpsCleanup == 5

MaxOpsZst == 4

MaxSystems == 3

----------------------------------------------------------------------------
(* Program constants *)

W == 64

PageSlots == 4096

PoolPageCap == 32

ChainCap == 32

PrevCap == 64

IndexSpace == 2097152

GENERATION_BITS == 43

\* A u64 is four 16-bit limbs, least significant first
NoGeneration == <<0, 0, 0, 0>>

FullMask == 0 .. (W - 1)

Uninit == <<>>

DefaultPtr == 0

\* Every index the specifications below ever pass to the storage.
AllIndices == {0, 1, 65, 4160}

chunk_idx(index) == index % W

page_idx(index) == (index \div W) % W

storage_idx(index) == index \div (W * W)

\* The positions the model's indices decompose to: the arrays data[0..63] are
\* kept at these positions only, every other position stays at its initial
\* default and is never read or written.
CIdx == {chunk_idx(i) : i \in AllIndices}

PIdx == {page_idx(i) : i \in AllIndices}

SIdx == {storage_idx(i) : i \in AllIndices}

Min(S) == CHOOSE x \in S : \A y \in S : x <= y

\* The elements of a finite set of naturals in ascending order.
RECURSIVE Ascending(_)
Ascending(S) ==
    IF S = {} THEN <<>> ELSE LET m == Min(S) IN <<m>> \o Ascending(S \ {m})

----------------------------------------------------------------------------
(* Chunk, Page: storage.rs *)

NewChunk(owner) ==
    [presence_mask |-> {}, fullness_mask |-> {}, changed_mask |-> {},
     data |-> [i \in CIdx |-> Uninit], owner_index |-> owner, live |-> TRUE]

NewPage(owner) ==
    [presence_mask |-> {}, fullness_mask |-> {}, changed_mask |-> {}, count |-> 0,
     data |-> [p \in PIdx |-> DefaultPtr], owner_index |-> owner]

\* A fresh heap address: the lowest address no object occupies (a freed
\* address no pointer refers to any more may be handed out again).
NewPtr(heap) ==
    Min({n \in 1 .. (Cardinality(DOMAIN heap) + 1) : n \notin DOMAIN heap})

----------------------------------------------------------------------------
(* Pool: pool.rs.  A pool is a sequence of pool pages, a pool page the     *)
(* sequence items[0..len) of the pointers it hands out.                    *)

\* alloc_chunk_to_slot / alloc_page_to_slot: the pointer goes to the end of the
\* last pool page, or to a new pool page when the last one holds 32.
PoolPush(pool, ptr) ==
    IF Len(pool) > 0 /\ Len(pool[Len(pool)]) < PoolPageCap
    THEN [pool EXCEPT ![Len(pool)] = Append(@, ptr)]
    ELSE Append(pool, <<ptr>>)

PoolHas(pool, ptr) ==
    \E i \in 1 .. Len(pool) : \E k \in 1 .. Len(pool[i]) : pool[i][k] = ptr

\* The first pool page holding ptr, and the first position of ptr in it.
PoolPageOf(pool, ptr) ==
    Min({i \in 1 .. Len(pool) : \E k \in 1 .. Len(pool[i]) : pool[i][k] = ptr})

PoolSlotOf(pool, ptr) ==
    LET pg == pool[PoolPageOf(pool, ptr)]
    IN  Min({k \in 1 .. Len(pg) : pg[k] = ptr})

\* free / free_chunk / free_page: the last item of the pool page takes the
\* place of the freed one.
PoolRemove(pool, ptr) ==
    IF ~PoolHas(pool, ptr) THEN pool
    ELSE LET i == PoolPageOf(pool, ptr)
             pg == pool[i]
             idx == PoolSlotOf(pool, ptr)
             n == Len(pg)
         IN  [pool EXCEPT ![i] =
                 [k \in 1 .. (n - 1) |-> IF k = idx THEN pg[n] ELSE pg[k]]]

\* free_chunk / free_page return Some((moved_ptr, owner_idx)) when the freed
\* item was not the last of its pool page: the pointer that moved, else 0.
PoolMoved(pool, ptr) ==
    IF ~PoolHas(pool, ptr) THEN DefaultPtr
    ELSE LET pg == pool[PoolPageOf(pool, ptr)]
         IN  IF PoolSlotOf(pool, ptr) # Len(pg) THEN pg[Len(pg)] ELSE DefaultPtr

----------------------------------------------------------------------------
(* RollbackStorage, RollbackPage, RollbackChunk: rollback.rs *)

NewRollbackChunk ==
    [created_mask |-> {}, changed_mask |-> {}, removed_mask |-> {},
     data |-> [i \in CIdx |-> Uninit]]

NewRollbackPage ==
    [changed_mask |-> {}, data |-> [p \in PIdx |-> NewRollbackChunk]]

\* RollbackStorage::with_tick, and RollbackStorage::reset_for_tick of a pooled
\* journal: no diff, no saved generation.
with_tick(tick) ==
    [changed_mask |-> {}, tick |-> tick, generation_at_tick_start |-> NoGeneration,
     data |-> [s \in SIdx |-> NewRollbackPage]]

\* get_or_create_page(s) followed by get_or_create_chunk(p): a missing page or
\* chunk is written fresh and its bit set in the parent's changed_mask.
get_or_create(rb, s, p) ==
    LET pg0 == IF s \in rb.changed_mask THEN rb.data[s] ELSE NewRollbackPage
        ch0 == IF p \in pg0.changed_mask THEN pg0.data[p] ELSE NewRollbackChunk
        pg1 == [pg0 EXCEPT !.changed_mask = @ \cup {p}, !.data[p] = ch0]
    IN  [rb EXCEPT !.changed_mask = @ \cup {s}, !.data[s] = pg1]

\* RollbackStorage::get_page(s) then RollbackPage::get(p): the journal chunk, or
\* an empty one where either returns None.
rb_chunk(rb, s, p) ==
    IF s \in rb.changed_mask /\ p \in rb.data[s].changed_mask
    THEN rb.data[s].data[p]
    ELSE NewRollbackChunk

rb_page_mask(rb, s) ==
    IF s \in rb.changed_mask THEN rb.data[s].changed_mask ELSE {}

----------------------------------------------------------------------------
(* Storage: storage.rs *)

\* Storage::new
NewStorage ==
    [presence_mask |-> {}, fullness_mask |-> {}, changed_mask |-> {}, count |-> 0,
     rollback |-> with_tick(0), prev |-> <<>>, rollback_pool |-> 0,
     page_pool |-> <<>>, chunk_pool |-> <<>>,
     data |-> [s \in SIdx |-> DefaultPtr],
     generation |-> NoGeneration,
     is_zst |-> FALSE,
     pages |-> (DefaultPtr :> NewPage(0)),
     chunks |-> (DefaultPtr :> NewChunk(0))]

\* Lines 99-116 without the loop of lines 112-114: nothing is evicted
ensure_rollback_tick_keeps_all(S, ct) ==
    IF S.rollback.tick # ct
    THEN [S EXCEPT !.rollback = with_tick(ct),
                   !.rollback_pool = IF @ > 0 THEN @ - 1 ELSE 0,
                   !.prev = Append(S.prev, S.rollback)]
    ELSE S

\* Storage::ensure_rollback_tick (lines 99-116)
ensure_rollback_tick(S, ct) ==
    IF S.rollback.tick # ct
    THEN LET merged == Append(S.prev, S.rollback)
             n == Len(merged)
         IN  [S EXCEPT
                !.rollback = with_tick(ct),
                !.rollback_pool = IF @ > 0 THEN @ - 1 ELSE 0,
                !.prev = IF n > PrevCap THEN SubSeq(merged, n - PrevCap + 1, n)
                         ELSE merged]
    ELSE S

\* page_pool.alloc_page_to_slot(s, &mut self.data[s], ..)
alloc_page_to_slot(S, s) ==
    LET ptr == NewPtr(S.pages)
    IN  [S EXCEPT !.pages = (ptr :> NewPage(s)) @@ @,
                  !.page_pool = PoolPush(@, ptr),
                  !.data[s] = ptr]

\* chunk_pool.alloc_chunk_to_slot(p, &mut page.data[p]) for the page at pptr
alloc_chunk_to_slot(S, pptr, p) ==
    LET ptr == NewPtr(S.chunks)
    IN  [S EXCEPT !.chunks = (ptr :> NewChunk(p)) @@ @,
                  !.chunk_pool = PoolPush(@, ptr),
                  !.pages[pptr].data[p] = ptr]

\* Storage::get
get(S, index) ==
    LET ci == chunk_idx(index)
        pi == page_idx(index)
        si == storage_idx(index)
    IN  IF si >= W THEN Uninit
        ELSE LET cptr == S.pages[S.data[si]].data[pi]
             IN  IF cptr = DefaultPtr THEN Uninit
                 ELSE IF ci \notin S.chunks[cptr].presence_mask THEN Uninit
                 ELSE S.chunks[cptr].data[ci]


\* Storage::set lines 153-170: the page at si is created if it is missing
set_page(S, si) ==
    IF si \notin S.presence_mask
    THEN [alloc_page_to_slot(S, si) EXCEPT
              !.presence_mask = @ \cup {si},
              !.changed_mask = @ \cup {si}]
    ELSE S

\* Storage::set lines 176-188: the chunk at pi is created if it is missing
set_chunk(S, si, pi) ==
    LET pptr == S.data[si]
    IN  IF pi \notin S.pages[pptr].presence_mask
        THEN [alloc_chunk_to_slot(S, pptr, pi) EXCEPT
                  !.pages[pptr].presence_mask = @ \cup {pi},
                  !.pages[pptr].changed_mask = @ \cup {pi}]
        ELSE S

\* Storage::set lines 190-207: the value is written into the chunk
set_value(S, si, pi, ci, value) ==
    LET cptr == S.pages[S.data[si]].data[pi]
    IN  [S EXCEPT !.chunks[cptr].data[ci] = value,
                  !.chunks[cptr].presence_mask = @ \cup {ci},
                  !.chunks[cptr].fullness_mask = @ \cup {ci},
                  !.chunks[cptr].changed_mask = @ \cup {ci}]

\* Storage::set lines 219-278: the journal chunk rc0 takes the diff of slot ci
set_leaf(rc0, ci, was_present, old_value) ==
    LET was_removed == ci \in rc0.removed_mask
        was_created == ci \in rc0.created_mask
    IN  IF was_created
        THEN [rc0 EXCEPT !.removed_mask = @ \ {ci},
                         !.changed_mask = @ \ {ci},
                         !.created_mask = @ \cup {ci}]
        ELSE IF was_present
        THEN [rc0 EXCEPT
                 !.data[ci] = IF ci \notin rc0.changed_mask
                                 /\ ci \notin rc0.removed_mask
                              THEN old_value ELSE @,
                 !.removed_mask = @ \ {ci},
                 !.created_mask = @ \ {ci},
                 !.changed_mask = @ \cup {ci}]
        ELSE IF was_removed
        THEN [rc0 EXCEPT !.removed_mask = @ \ {ci},
                         !.created_mask = @ \ {ci},
                         !.changed_mask = @ \cup {ci}]
        ELSE [rc0 EXCEPT !.removed_mask = @ \ {ci},
                         !.changed_mask = @ \ {ci},
                         !.created_mask = @ \cup {ci}]

\* Storage::set lines 215-278: the journal
set_journal(S, si, pi, ci, was_present, old_value) ==
    [S EXCEPT !.rollback =
        [get_or_create(@, si, pi) EXCEPT
            !.data[si].data[pi] = set_leaf(@, ci, was_present, old_value),
            !.data[si].changed_mask = @ \cup {pi},
            !.changed_mask = @ \cup {si}]]

\* Storage::set lines 281-302: page counts and masks
set_counts(S, si, pi, was_present) ==
    LET pptr == S.data[si]
        cptr == S.pages[pptr].data[pi]
        chunk_is_full == S.chunks[cptr].presence_mask = FullMask
    IN  [S EXCEPT
           !.pages[pptr].count = IF was_present THEN @ ELSE @ + 1,
           !.count = IF was_present THEN @ ELSE @ + 1,
           !.pages[pptr].presence_mask = @ \cup {pi},
           !.pages[pptr].fullness_mask =
               (IF chunk_is_full THEN @ \cup {pi} ELSE @ \ {pi})
                   \cap (S.pages[pptr].presence_mask \cup {pi}),
           !.pages[pptr].changed_mask = @ \cup {pi}]

\* Storage::set lines 309-324: storage masks
set_masks(S, si) ==
    LET page_is_full == S.pages[S.data[si]].count = PageSlots
    IN  [S EXCEPT
           !.presence_mask = @ \cup {si},
           !.fullness_mask =
               (IF page_is_full THEN @ \cup {si} ELSE @ \ {si})
                   \cap (S.presence_mask \cup {si}),
           !.changed_mask = @ \cup {si}]

\* Storage::set lines 190-324, for a storage S that has the page and the chunk
set_slot(S, ct, si, pi, ci, value) ==
    LET cptr == S.pages[S.data[si]].data[pi]
        was_present == ci \in S.chunks[cptr].presence_mask
        old_value == S.chunks[cptr].data[ci]
    IN  set_masks(
            set_counts(
                set_journal(
                    \* line 211
                    ensure_rollback_tick(set_value(S, si, pi, ci, value), ct),
                    si, pi, ci, was_present, old_value),
                si, pi, was_present),
            si)

\* Storage::set(frame, index, value) with frame.current_tick = ct
set(S, ct, index, value) ==
    set_slot(set_chunk(set_page(S, storage_idx(index)),
                       storage_idx(index), page_idx(index)),
             ct, storage_idx(index), page_idx(index), chunk_idx(index), value)


\* The early returns of Storage::remove (lines 368-391): the value exists.
remove_finds(S, index) ==
    LET ci == chunk_idx(index)
        pi == page_idx(index)
        si == storage_idx(index)
    IN  /\ si < W
        /\ si \in S.presence_mask
        /\ pi \in S.pages[S.data[si]].presence_mask
        /\ ci \in S.chunks[S.pages[S.data[si]].data[pi]].presence_mask

\* Dropping the Box of a chunk: the cell is freed.  It stays in the heap, marked
\* dead, for as long as a pointer still refers to it (collect_dead).
drop_chunk(S, cptr) ==
    IF cptr \in DOMAIN S.chunks /\ cptr # DefaultPtr
    THEN [S EXCEPT !.chunks[cptr].live = FALSE]
    ELSE S

\* Pool::free(ptr) on the chunk pool (lines 52-71 of pool.rs)
pool_free_chunk(S, cptr) ==
    IF PoolHas(S.chunk_pool, cptr)
    THEN [drop_chunk(S, cptr) EXCEPT !.chunk_pool = PoolRemove(@, cptr)]
    ELSE S

\* Pool::free(ptr) on the page pool
pool_free_page(S, pptr) ==
    IF PoolHas(S.page_pool, pptr)
    THEN [S EXCEPT !.page_pool = PoolRemove(@, pptr),
                   !.pages = [q \in (DOMAIN @) \ {pptr} |-> @[q]]]
    ELSE S

\* The journal part of Storage::remove for an add-then-remove within the tick
\* (lines 489-495 and 513-533): the diff is cancelled and the summary bits of
\* a chunk, and of a page, left without any diff are cleared.
\* remove_cancel without lines 512-541: the leaf's diff is cancelled, the
\* summary bits of the page and of the journal stay.
remove_cancel_keeps_summary(rb0, si, pi, ci) ==
    [rb0 EXCEPT !.data[si].data[pi].created_mask = @ \ {ci},
                !.data[si].data[pi].changed_mask = @ \ {ci},
                !.data[si].data[pi].removed_mask = @ \ {ci}]

remove_cancel(rb0, si, pi, ci) ==
    LET rc1 == [rb0.data[si].data[pi] EXCEPT !.created_mask = @ \ {ci},
                                             !.changed_mask = @ \ {ci},
                                             !.removed_mask = @ \ {ci}]
        rb1 == [rb0 EXCEPT !.data[si].data[pi] = rc1]
        chunk_has_other_changes ==
            (rc1.created_mask \cup rc1.changed_mask \cup rc1.removed_mask) # {}
        pg2 == [rb1.data[si] EXCEPT !.changed_mask = @ \ {pi},
                                    !.data[pi] = NewRollbackChunk]
        page_has_other_changes == pg2.changed_mask # {}
    IN  IF chunk_has_other_changes THEN rb1
        ELSE IF page_has_other_changes THEN [rb1 EXCEPT !.data[si] = pg2]
        ELSE [rb1 EXCEPT !.data[si] = NewRollbackPage,
                         !.changed_mask = @ \ {si}]

\* Storage::remove lines 393-407: the value leaves the chunk
remove_value(S, si, pi, ci) ==
    LET pptr == S.data[si]
        cptr == S.pages[pptr].data[pi]
    IN  [S EXCEPT !.pages[pptr].changed_mask = @ \cup {pi},
                  !.chunks[cptr].data[ci] = Uninit,
                  !.chunks[cptr].presence_mask = @ \ {ci},
                  !.chunks[cptr].fullness_mask = @ \ {ci},
                  !.chunks[cptr].changed_mask = @ \cup {ci}]

\* Storage::remove lines 409-421: the journal of another tick is rotated, the
\* open journal of this tick gets its page and chunk
remove_rotate(S, ct, si, pi) ==
    IF S.rollback.tick # ct THEN ensure_rollback_tick(S, ct)
    ELSE [S EXCEPT !.rollback = get_or_create(@, si, pi)]

\* Storage::remove lines 424-439: page masks and counts
remove_counts(S, si, pi, chunk_has_present) ==
    LET pptr == S.data[si]
    IN  [S EXCEPT
           !.pages[pptr].presence_mask =
               IF chunk_has_present THEN @ \cup {pi} ELSE @ \ {pi},
           !.pages[pptr].fullness_mask =
               (@ \ {pi}) \cap
               (IF chunk_has_present
                THEN S.pages[pptr].presence_mask \cup {pi}
                ELSE S.pages[pptr].presence_mask \ {pi}),
           !.pages[pptr].changed_mask = @ \cup {pi},
           !.pages[pptr].count = IF @ > 0 THEN @ - 1 ELSE 0,
           !.count = IF @ > 0 THEN @ - 1 ELSE 0]

\* Storage::remove lines 441-453 without line 447: the chunk is freed and the
\* page keeps its pointer
remove_chunk_keeps_pointer(S, si, pi, chunk_has_present) ==
    IF chunk_has_present THEN S
    ELSE pool_free_chunk(S, S.pages[S.data[si]].data[pi])

\* Storage::remove lines 441-453: a chunk left empty is freed
remove_chunk(S, si, pi, chunk_has_present) ==
    LET pptr == S.data[si]
    IN  IF chunk_has_present THEN S
        ELSE [pool_free_chunk(S, S.pages[pptr].data[pi]) EXCEPT
                  !.pages[pptr].data[pi] = DefaultPtr]

\* Storage::remove lines 455-475: storage masks
remove_masks(S, si) ==
    LET pptr == S.data[si]
        page_has_present == S.pages[pptr].presence_mask # {}
        page_is_full == S.pages[pptr].count = PageSlots
    IN  [S EXCEPT
           !.presence_mask =
               IF page_has_present THEN @ \cup {si} ELSE @ \ {si},
           !.fullness_mask =
               (IF page_is_full THEN @ \cup {si} ELSE @ \ {si}) \cap
               (IF page_has_present THEN S.presence_mask \cup {si}
                ELSE S.presence_mask \ {si}),
           !.changed_mask = @ \cup {si}]

\* Storage::remove lines 497-510: the journal chunk rc0 takes the removal of
\* slot ci
remove_leaf(rc0, ci, old_value) ==
    [rc0 EXCEPT
       !.data[ci] = IF ci \notin rc0.changed_mask /\ ci \notin rc0.removed_mask
                    THEN old_value ELSE @,
       !.created_mask = @ \ {ci},
       !.changed_mask = @ \ {ci},
       !.removed_mask = @ \cup {ci}]

\* Storage::remove lines 484-541: the journal
remove_journal(S, si, pi, ci, was_created_in_rollback, old_value) ==
    [S EXCEPT !.rollback =
        IF was_created_in_rollback
        THEN remove_cancel(get_or_create(@, si, pi), si, pi, ci)
        ELSE [get_or_create(@, si, pi) EXCEPT
                !.data[si].data[pi] = remove_leaf(@, ci, old_value),
                !.data[si].changed_mask = @ \cup {pi},
                !.changed_mask = @ \cup {si}]]

\* Storage::remove lines 543-554: a page left empty is freed
remove_page(S, si) ==
    LET pptr == S.data[si]
    IN  IF S.pages[pptr].presence_mask # {} THEN S
        ELSE [pool_free_page(S, pptr) EXCEPT !.data[si] = DefaultPtr]

\* Storage::remove(frame, index) with frame.current_tick = ct, when the value
\* exists (the call returns true)
remove_present(S, ct, index) ==
    LET ci == chunk_idx(index)
        pi == page_idx(index)
        si == storage_idx(index)
        cptr == S.pages[S.data[si]].data[pi]
        old_value == S.chunks[cptr].data[ci]
        chunk_has_present == (S.chunks[cptr].presence_mask \ {ci}) # {}
        \* lines 409-417
        probe == rb_chunk(S.rollback, si, pi)
        was_created_in_rollback ==
            IF S.rollback.tick # ct THEN FALSE
            ELSE /\ ci \in probe.created_mask
                 /\ ~(ci \in probe.changed_mask \/ ci \in probe.removed_mask)
    IN  remove_page(
            remove_journal(
                remove_masks(
                    remove_chunk(
                        remove_counts(
                            remove_rotate(remove_value(S, si, pi, ci), ct, si, pi),
                            si, pi, chunk_has_present),
                        si, pi, chunk_has_present),
                    si),
                si, pi, ci, was_created_in_rollback, old_value),
            si)

\* Storage::remove as if it rotated the journal before its early returns
remove_rotating_first(S, ct, index) ==
    IF remove_finds(S, index) THEN remove_present(S, ct, index)
    ELSE ensure_rollback_tick(S, ct)

\* Storage::remove
remove(S, ct, index) ==
    IF remove_finds(S, index) THEN remove_present(S, ct, index) ELSE S


\* Storage::clear_changed_masks without the loop of lines 825-841 over the
\* pages: line 843 alone
clear_changed_masks_storage_only(S) == [S EXCEPT !.changed_mask = {}]

\* Storage::clear_changed_masks with Page::clear_changed_masks and
\* Chunk::clear_changed_masks (lines 823-844, 1274-1295, 1357-1359), for the
\* pages and chunks the heap holds (those at SIdx and PIdx)
clear_changed_masks(S) ==
    LET visited == S.changed_mask \cap S.presence_mask \cap SIdx
        pptrs == {S.data[s] : s \in visited}
        cptrs == UNION {{S.pages[q].data[p] :
                            p \in S.pages[q].changed_mask \cap S.pages[q].presence_mask
                                      \cap PIdx}
                        : q \in pptrs}
    IN  [S EXCEPT
           !.chunks = [c \in DOMAIN @ |->
                          IF c \in cptrs THEN [@[c] EXCEPT !.changed_mask = {}]
                          ELSE @[c]],
           !.pages = [q \in DOMAIN @ |->
                         IF q \in pptrs THEN [@[q] EXCEPT !.changed_mask = {}]
                         ELSE @[q]],
           !.changed_mask = {}]

\* Storage::rollback lines 655-659 and 752-757: the pointer free_chunk reports
\* as moved is stored at page.data[owner_index of the moved chunk]
fix_moved_chunk(S, pptr, moved) ==
    IF moved = DefaultPtr THEN S
    ELSE [S EXCEPT !.pages[pptr].data[S.chunks[moved].owner_index] = moved]

\* chunk_pool.free_chunk(page.data[p]) as Storage::rollback uses it for the page
\* at pptr
free_chunk(S, pptr, cptr) ==
    fix_moved_chunk(pool_free_chunk(S, cptr), pptr, PoolMoved(S.chunk_pool, cptr))

\* Storage::rollback lines 775-777: the pointer free_page reports as moved is
\* stored at self.data[owner_index of the moved page]
fix_moved_page(S, moved) ==
    IF moved = DefaultPtr THEN S
    ELSE [S EXCEPT !.data[S.pages[moved].owner_index] = moved]

\* page_pool.free_page(self.data[s]) as Storage::rollback uses it
free_page(S, pptr) ==
    fix_moved_page(pool_free_page(S, pptr), PoolMoved(S.page_pool, pptr))

\* Storage::rollback lines 573-590: the journals with a tick after the target,
\* oldest first, at most 32 of them
rollback_chain(S, target_tick) ==
    LET later == SelectSeq(S.prev, LAMBDA j : j.tick > target_tick)
        from_prev == IF Len(later) > ChainCap THEN SubSeq(later, 1, ChainCap)
                     ELSE later
    IN  IF S.rollback.tick > target_tick /\ Len(from_prev) < ChainCap
        THEN Append(from_prev, S.rollback)
        ELSE from_prev

\* lines 685-717: the journals of the chain restore the stored values of one
\* chunk, oldest first; acc = [S, processed_chunk, pending_remove]
RECURSIVE restore_chunk(_, _, _, _, _, _, _)
restore_chunk(acc, chain, k, s, p, pptr, cptr) ==
    IF k > Len(chain) THEN acc
    ELSE
      LET S == acc.S
          rc == rb_chunk(chain[k], s, p)
          to_restore == (rc.changed_mask \cup rc.removed_mask) \ acc.processed_chunk
          absent == to_restore \ S.chunks[cptr].presence_mask
          S1 == [S EXCEPT
                   !.chunks[cptr].data =
                       [i \in DOMAIN @ |-> IF i \in to_restore THEN rc.data[i] ELSE @[i]],
                   !.chunks[cptr].presence_mask = @ \cup to_restore,
                   !.chunks[cptr].fullness_mask = @ \cup to_restore,
                   !.pages[pptr].count = @ + Cardinality(absent),
                   !.count = @ + Cardinality(absent)]
          processed == acc.processed_chunk \cup to_restore
      IN  restore_chunk(
              [S |-> S1, processed_chunk |-> processed,
               pending_remove |-> acc.pending_remove \cup (rc.created_mask \ processed)],
              chain, k + 1, s, p, pptr, cptr)

\* lines 636-680: the chunk of a zero-sized component type
RECURSIVE zst_presence(_, _, _, _, _)
zst_presence(presence, chain, k, s, p) ==
    IF k > Len(chain) THEN presence
    ELSE LET rc == rb_chunk(chain[k], s, p)
         IN  zst_presence((presence \ rc.created_mask)
                              \cup rc.removed_mask \cup rc.changed_mask,
                          chain, k + 1, s, p)

\* lines 650-672: the presence computed from the chain replaces the chunk's
zst_apply(S, p, pptr, cptr, new_presence) ==
    LET old_presence == S.chunks[cptr].presence_mask
        old_pop == Cardinality(old_presence)
        new_pop == Cardinality(new_presence)
    IN  IF new_presence # old_presence
        THEN [(IF new_presence = {}
               THEN [free_chunk(S, pptr, cptr) EXCEPT
                        !.pages[pptr].data[p] = DefaultPtr,
                        !.pages[pptr].presence_mask = @ \ {p},
                        !.pages[pptr].fullness_mask = @ \ {p}]
               ELSE [S EXCEPT !.chunks[cptr].presence_mask = new_presence,
                              !.chunks[cptr].fullness_mask = new_presence])
              EXCEPT
                 !.pages[pptr].count =
                     IF @ + new_pop >= old_pop THEN @ + new_pop - old_pop ELSE 0,
                 !.count = IF @ + new_pop >= old_pop THEN @ + new_pop - old_pop ELSE 0]
        ELSE S

\* lines 738-747: the page's fullness bit of a chunk that stays
chunk_fullness(S, p, pptr) ==
    IF p \in S.pages[pptr].presence_mask
    THEN [S EXCEPT !.pages[pptr].fullness_mask =
             IF S.chunks[S.pages[pptr].data[p]].presence_mask = FullMask
             THEN @ \cup {p} ELSE @ \ {p}]
    ELSE S

rollback_chunk_zst(S, chain, s, p, pptr, cptr) ==
    chunk_fullness(
        zst_apply(S, p, pptr, cptr,
                  zst_presence(S.chunks[cptr].presence_mask, chain, 1, s, p)),
        p, pptr)

\* lines 719-735: the slots the chain created are removed
sized_removals(acc, pptr, cptr) ==
    LET rem == acc.pending_remove
        dropped == rem \cap acc.S.chunks[cptr].presence_mask
    IN  [acc.S EXCEPT
           !.chunks[cptr].data =
               [i \in DOMAIN @ |-> IF i \in dropped THEN Uninit ELSE @[i]],
           !.chunks[cptr].presence_mask = @ \ rem,
           !.chunks[cptr].fullness_mask = @ \ rem,
           !.pages[pptr].count =
               IF @ >= Cardinality(dropped) THEN @ - Cardinality(dropped) ELSE 0,
           !.count =
               IF @ >= Cardinality(dropped) THEN @ - Cardinality(dropped) ELSE 0]

\* lines 748-767: a chunk left empty is freed, the page's fullness bit of a
\* chunk that stays is recomputed
sized_finish(S, p, pptr) ==
    LET c2 == S.pages[pptr].data[p]
    IN  IF p \notin S.pages[pptr].presence_mask THEN S
        ELSE IF S.chunks[c2].presence_mask = {}
        THEN [free_chunk(S, pptr, c2) EXCEPT
                 !.pages[pptr].data[p] = DefaultPtr,
                 !.pages[pptr].presence_mask = @ \ {p},
                 !.pages[pptr].fullness_mask = @ \ {p}]
        ELSE [S EXCEPT !.pages[pptr].fullness_mask =
                 IF S.chunks[c2].presence_mask = FullMask THEN @ \cup {p} ELSE @ \ {p}]

\* lines 682-736 and 748-767: the chunk of a sized component type
rollback_chunk_sized(S, chain, s, p, pptr, cptr) ==
    sized_finish(
        sized_removals(
            restore_chunk([S |-> S, processed_chunk |-> {}, pending_remove |-> {}],
                          chain, 1, s, p, pptr, cptr),
            pptr, cptr),
        p, pptr)

\* lines 636-768: the chunk at position p of the page at pptr, which exists
rollback_present_chunk(S, chain, s, p, pptr) ==
    IF S.is_zst
    THEN rollback_chunk_zst(S, chain, s, p, pptr, S.pages[pptr].data[p])
    ELSE rollback_chunk_sized(S, chain, s, p, pptr, S.pages[pptr].data[p])

\* lines 627-768: one chunk position p of the page at pptr
rollback_chunk(S, chain, s, p, pptr) ==
    rollback_present_chunk(
        IF p \notin S.pages[pptr].presence_mask
        THEN [alloc_chunk_to_slot(S, pptr, p) EXCEPT
                 !.pages[pptr].presence_mask = @ \cup {p}]
        ELSE S,
        chain, s, p, pptr)

RECURSIVE rollback_chunks(_, _, _, _, _)
rollback_chunks(S, chain, s, ps, pptr) ==
    IF ps = <<>> THEN S
    ELSE rollback_chunks(rollback_chunk(S, chain, s, Head(ps), pptr),
                         chain, s, Tail(ps), pptr)

\* lines 619-768: the chunks of the page at position s, which exists, that
\* some journal of the chain names, in ascending order
page_chunks(S, chain, s) ==
    rollback_chunks(S, chain, s,
                    Ascending(UNION {rb_page_mask(chain[k], s) : k \in 1 .. Len(chain)}),
                    S.data[s])

\* lines 772-788: a page left empty is freed, the storage's fullness bit of a
\* page that stays is recomputed
page_finish(S, s) ==
    LET pptr == S.data[s]
    IN  IF S.pages[pptr].presence_mask = {}
        THEN [free_page(S, pptr) EXCEPT
                 !.data[s] = DefaultPtr,
                 !.presence_mask = @ \ {s},
                 !.fullness_mask = @ \ {s}]
        ELSE [S EXCEPT !.fullness_mask =
                 IF S.pages[pptr].count = PageSlots THEN @ \cup {s} ELSE @ \ {s}]

\* lines 602-788: one page position s of the storage
rollback_page(S, chain, s) ==
    page_finish(
        page_chunks(
            IF s \notin S.presence_mask
            THEN [alloc_page_to_slot(S, s) EXCEPT !.presence_mask = @ \cup {s}]
            ELSE S,
            chain, s),
        s)

RECURSIVE rollback_pages(_, _, _)
rollback_pages(S, chain, ss) ==
    IF ss = <<>> THEN S
    ELSE rollback_pages(rollback_page(S, chain, Head(ss)), chain, Tail(ss))

\* Storage::rollback lines 793-811: the generation is restored, the changed
\* masks cleared, the open journal retagged, the consumed journals of prev
\* returned to the pool
rollback_finish(S, target_tick) ==
    [clear_changed_masks([S EXCEPT !.generation = S.rollback.generation_at_tick_start])
     EXCEPT
        !.rollback.tick = target_tick,
        !.fullness_mask = @ \cap S.presence_mask,
        !.prev = SelectSeq(@, LAMBDA j : ~(j.tick > target_tick)),
        !.rollback_pool =
            @ + Len(SelectSeq(S.prev, LAMBDA j : j.tick > target_tick))]

\* Storage::rollback(target_tick)
rollback(S, target_tick) ==
    LET chain == rollback_chain(S, target_tick)
    IN  rollback_finish(
            rollback_pages(
                S, chain,
                Ascending(UNION {chain[k].changed_mask : k \in 1 .. Len(chain)})),
            target_tick)


\* deref_mut without the was_created branch of view.rs 119-123: every write
\* stores the old value and marks the slot changed.
deref_mut_always_changed(S, ct, index, value) ==
    LET ci == chunk_idx(index)
        pi == page_idx(index)
        si == storage_idx(index)
        cptr == S.pages[S.data[si]].data[pi]
    IN  [ensure_rollback_tick(
             [S EXCEPT !.chunks[cptr].changed_mask = @ \cup {ci}], ct)
         EXCEPT
           !.rollback =
               [get_or_create(@, si, pi) EXCEPT
                   !.data[si].data[pi].data[ci] = S.chunks[cptr].data[ci],
                   !.data[si].data[pi].changed_mask = @ \cup {ci}],
           !.chunks[cptr].data[ci] = value]

\* view.rs lines 115-135: the journal chunk rc takes the write to slot ci
deref_leaf(rc, ci, old_val) ==
    LET was_created == ci \in rc.created_mask
        was_changed == ci \in rc.changed_mask
        was_removed == ci \in rc.removed_mask
    IN  IF was_created
        THEN [rc EXCEPT !.removed_mask = @ \ {ci},
                        !.changed_mask = @ \ {ci},
                        !.created_mask = @ \cup {ci}]
        ELSE [rc EXCEPT
                !.data[ci] = IF ~was_changed /\ ~was_removed THEN old_val ELSE @,
                !.removed_mask = @ \ {ci},
                !.created_mask = @ \ {ci},
                !.changed_mask = @ \cup {ci}]

\* ViewMut::deref_mut for the slot at index, followed by the assignment of
\* value through the returned reference
deref_mut(S, ct, index, value) ==
    LET ci == chunk_idx(index)
        pi == page_idx(index)
        si == storage_idx(index)
        cptr == S.pages[S.data[si]].data[pi]
        old_val == S.chunks[cptr].data[ci]
    IN  [ensure_rollback_tick(
             [S EXCEPT !.chunks[cptr].changed_mask = @ \cup {ci}], ct)
         EXCEPT
           !.rollback =
               [get_or_create(@, si, pi) EXCEPT
                   !.data[si].data[pi] = deref_leaf(@, ci, old_val)],
           !.chunks[cptr].data[ci] = value]

\* decs_macros lib.rs 484-492: the chunk's changed bits are propagated to page
\* and storage
query_propagate(S, si, pi) ==
    LET pptr == S.data[si]
    IN  IF S.chunks[S.pages[pptr].data[pi]].changed_mask # {}
        THEN [S EXCEPT !.pages[pptr].changed_mask = @ \cup {pi},
                       !.changed_mask = @ \cup {si}]
        ELSE S

\* The generated query body without the propagation of lines 484-492
query_write_without_propagate(S, ct, index, value) ==
    deref_mut(ensure_rollback_tick(S, ct), ct, index, value)

\* The generated query body around one mutable handle (decs_macros lib.rs
\* 400-423 and 484-492): rotate the journal, hand the ViewMut to the system,
\* propagate the chunk's changed bits to page and storage.
query_write(S, ct, index, value) ==
    query_propagate(deref_mut(ensure_rollback_tick(S, ct), ct, index, value),
                    storage_idx(index), page_idx(index))

\* Entity::new: the index masked to 21 bits and the generation masked to 43
\* bits (two limbs and the low bits of the third), the two fields of the
\* packed u64
entity_new(index, generation) ==
    <<index % IndexSpace,
      <<generation[1], generation[2], generation[3] % (2 ^ (GENERATION_BITS - 32))>>>>

\* Storage::<Entity>::spawn lines 1004-1008: wrapping_add(1) on the u64
\* counter, and 1 in place of 0 after the wrap
next_generation(g) ==
    IF g[1] < 65535 THEN <<g[1] + 1, g[2], g[3], g[4]>>
    ELSE IF g[2] < 65535 THEN <<0, g[2] + 1, g[3], g[4]>>
    ELSE IF g[3] < 65535 THEN <<0, 0, g[3] + 1, g[4]>>
    ELSE IF g[4] < 65535 THEN <<0, 0, 0, g[4] + 1>>
    ELSE <<1, 0, 0, 0>>

\* Storage::<Entity>::first_0_index: trailing_ones of a mask that is not full
RECURSIVE trailing_ones(_, _)
trailing_ones(mask, n) ==
    IF n \in mask THEN trailing_ones(mask, n + 1) ELSE n

\* spawn picking the highest free slot of the chunk in place of the lowest
\* (line 1056 with the first zero counted from the top of the mask)
spawn_index_from_top(S) ==
    IF S.fullness_mask = FullMask THEN -1
    ELSE LET si == trailing_ones(S.fullness_mask, 0)
             pg == S.pages[S.data[si]]
         IN  IF pg.fullness_mask = FullMask THEN -1
             ELSE LET pi == trailing_ones(pg.fullness_mask, 0)
                      free == FullMask \ S.chunks[pg.data[pi]].presence_mask
                  IN  IF free = {} THEN -1
                      ELSE si * PageSlots + pi * W
                               + (CHOOSE x \in free : \A y \in free : y <= x)

\* The index Storage::<Entity>::spawn picks (lines 1013-1056, 1070), or -1 where
\* one of the three first_0_index calls returns None
spawn_index(S) ==
    IF S.fullness_mask = FullMask THEN -1
    ELSE LET si == trailing_ones(S.fullness_mask, 0)
             pg == S.pages[S.data[si]]
         IN  IF pg.fullness_mask = FullMask THEN -1
             ELSE LET pi == trailing_ones(pg.fullness_mask, 0)
                      ch == S.chunks[pg.data[pi]]
                  IN  IF ch.presence_mask = FullMask THEN -1
                      ELSE si * PageSlots + pi * W + trailing_ones(ch.presence_mask, 0)

\* Storage::<Entity>::spawn lines 1017-1035: the page at si is created if it is
\* missing
spawn_page(S, si) ==
    IF si \in S.presence_mask THEN S
    ELSE [alloc_page_to_slot(S, si) EXCEPT
             !.presence_mask = @ \cup {si},
             !.changed_mask = @ \cup {si}]

\* Storage::<Entity>::spawn lines 1040-1054: the chunk at pi is created if it
\* is missing
spawn_chunk(S, si, pi) ==
    LET pptr == S.data[si]
    IN  IF pi \in S.pages[pptr].presence_mask THEN S
        ELSE [alloc_chunk_to_slot(S, pptr, pi) EXCEPT
                 !.pages[pptr].presence_mask = @ \cup {pi},
                 !.pages[pptr].changed_mask = @ \cup {pi}]

\* Storage::<Entity>::spawn lines 1062-1079: the entity is written into the
\* chunk
spawn_value(S, si, pi, ci, entity) ==
    LET cptr == S.pages[S.data[si]].data[pi]
    IN  [S EXCEPT !.chunks[cptr].presence_mask = @ \cup {ci},
                  !.chunks[cptr].fullness_mask = @ \cup {ci},
                  !.chunks[cptr].changed_mask = @ \cup {ci},
                  !.chunks[cptr].data[ci] = entity]

\* Storage::<Entity>::spawn lines 1091-1107: the journal chunk rc takes the
\* creation of slot ci
spawn_leaf(rc, ci) ==
    IF ci \in rc.removed_mask
    THEN [rc EXCEPT !.removed_mask = @ \ {ci},
                    !.created_mask = @ \ {ci},
                    !.changed_mask = @ \cup {ci}]
    ELSE [rc EXCEPT !.removed_mask = @ \ {ci},
                    !.changed_mask = @ \ {ci},
                    !.created_mask = @ \cup {ci}]

\* Storage::<Entity>::spawn lines 1083-1121: the journal and the counts
spawn_journal(S, si, pi, ci) ==
    [S EXCEPT !.rollback = [get_or_create(@, si, pi) EXCEPT
                               !.data[si].data[pi] = spawn_leaf(@, ci)],
              !.pages[S.data[si]].count = @ + 1,
              !.count = @ + 1]

\* Storage::<Entity>::spawn lines 1123-1159: the masks of page and storage
spawn_masks(S, si, pi) ==
    LET pptr == S.data[si]
        chunk_is_full == S.chunks[S.pages[pptr].data[pi]].presence_mask = FullMask
    IN  [S EXCEPT
           !.pages[pptr].fullness_mask =
               (IF chunk_is_full THEN @ \cup {pi} ELSE @ \ {pi})
                   \cap S.pages[pptr].presence_mask,
           !.pages[pptr].changed_mask = @ \cup {pi},
           !.fullness_mask =
               (IF S.pages[pptr].count = PageSlots THEN @ \cup {si} ELSE @ \ {si})
                   \cap S.presence_mask,
           !.changed_mask = @ \cup {si}]

\* Storage::<Entity>::spawn for the free slot at index, in a storage S whose
\* generation is already the new one
spawn_at(S, ct, index) ==
    LET ci == chunk_idx(index)
        pi == page_idx(index)
        si == storage_idx(index)
    IN  spawn_masks(
            spawn_journal(
                ensure_rollback_tick(
                    spawn_value(spawn_chunk(spawn_page(S, si), si, pi),
                                si, pi, ci, entity_new(index, S.generation)),
                    ct),
                si, pi, ci),
            si, pi)

\* spawn without the early return of line 1013: a full storage gives up slot 0
spawn_without_full_check(S, ct) ==
    spawn_at([S EXCEPT !.generation = next_generation(@)], ct,
             IF spawn_index(S) = -1 THEN 0 ELSE spawn_index(S))

\* Storage::<Entity>::spawn: the counter moves first (lines 1004-1008), also
\* where a first_0_index then finds no free slot and spawn returns None
spawn(S, ct) ==
    IF spawn_index(S) = -1 THEN [S EXCEPT !.generation = next_generation(@)]
    ELSE spawn_at([S EXCEPT !.generation = next_generation(@)], ct, spawn_index(S))

\* Box::from_raw(..) dropped by Pool::free / free_chunk: the memory of a freed
\* chunk is gone once no pointer refers to it.
collect_dead(S) ==
    LET refs == UNION {{S.pages[q].data[p] : p \in PIdx} : q \in DOMAIN S.pages}
        keep == {c \in DOMAIN S.chunks : S.chunks[c].live \/ c \in refs}
    IN  [S EXCEPT !.chunks = [c \in keep |-> S.chunks[c]]]


----------------------------------------------------------------------------
(* Observation of a storage and the history of observations *)

\* What Storage::get returns for every index, and the presence masks, fullness
\* masks and counts of every node, read through the tree's pointers.  The
\* changed masks are left out: Storage::rollback clears them (line 794).
Snapshot(S) ==
    [values |-> [i \in AllIndices |-> get(S, i)],
     count |-> S.count,
     presence_mask |-> S.presence_mask,
     fullness_mask |-> S.fullness_mask,
     pages |-> [s \in SIdx |->
                  LET pg == S.pages[S.data[s]]
                  IN  [presence_mask |-> pg.presence_mask,
                       fullness_mask |-> pg.fullness_mask,
                       count |-> pg.count,
                       chunks |-> [p \in PIdx |->
                                     LET ch == S.chunks[pg.data[p]]
                                     IN  [presence_mask |-> ch.presence_mask,
                                          fullness_mask |-> ch.fullness_mask]]]]]

\* hist[t + 1] is the observation at the end of tick t, for t in 0 .. current_tick
EndOfTick(t) == hist[t + 1]

\* The slot's value at the start of tick t (uninitialised where absent)
StartValue(t, i) == IF t = 0 THEN Uninit ELSE EndOfTick(t - 1).values[i]

NoPat == [i \in AllIndices |-> "none"]

PatSet(q) == CASE q = "none" -> "set" [] q = "rm" -> "rm_set" [] OTHER -> "other"

PatRemove(q) == CASE q = "none" -> "rm" [] q = "set" -> "set_rm" [] OTHER -> "other"

\* What the properties below need to know of the operation that led to the
\* current state.  kind is "overwrite" for a Set or a handle write to a slot
\* the open journal already records as created in this tick (index names the
\* slot, stored tells that the operation wrote the slot's journal cell),
\* "rollback" for a Rollback (from_tick is the tick it was called at,
\* open_later tells that the open journal was tagged after the target, second
\* that it follows a Rollback to a later tick with nothing in between, later
\* counts the journals that were tagged after the target, pat holds the slots
\* that were absent at the start of the tick it was called at and then Set and
\* Removed in it ("set_rm"), or present and then Removed and Set ("rm_set"),
\* or present and then only written through handles ("write")),
\* "spawn" for a spawn that returned Some(entity) (index names the slot it
\* took), "spawn_none" for a spawn that returned None, "panic" for a Set that
\* panicked and "absent" for a Remove that returned false (index is the index
\* passed), "query" for the run of a system (query holds None= or All= and
\* whether Changed= was given, visited the slots the handler was called on),
\* "op" for everything else.
NoOp ==
    [kind |-> "op", index |-> 0, stored |-> FALSE, open_later |-> FALSE,
     second |-> FALSE, from_tick |-> 0, later |-> 0, pat |-> NoPat,
     entity |-> Uninit, query |-> <<>>, visited |-> {}]

PatKept(q, start) ==
    IF q = "set_rm" /\ start = Uninit THEN "set_rm"
    ELSE IF q = "rm_set" /\ start # Uninit THEN "rm_set"
    ELSE IF q = "write" /\ start # Uninit THEN "write"
    ELSE "none"

\* The open journal records slot index as created at tick ct
CreatedInTick(S, ct, index) ==
    /\ S.rollback.tick = ct
    /\ chunk_idx(index) \in
           rb_chunk(S.rollback, storage_idx(index), page_idx(index)).created_mask

Present(S, index) == get(S, index) # Uninit

(* The journals of a storage: the sealed ones and the open one *)
Journals(S) == {S.prev[k] : k \in 1 .. Len(S.prev)} \cup {S.rollback}

Leaf(j, i) == rb_chunk(j, storage_idx(i), page_idx(i))

HasDiff(rc) == rc.created_mask \cup rc.changed_mask \cup rc.removed_mask # {}

----------------------------------------------------------------------------
(* Operations *)

\* Scheduler::new
NewScheduler == [systems |-> <<>>, wavefronts |-> <<>>]

Record(S, kind, index, newpat) ==
    /\ st' = collect_dead(S)
    /\ hist' = [hist EXCEPT ![current_tick + 1] = Snapshot(st')]
    /\ pat' = newpat
    /\ last_op' = IF kind = "overwrite" /\ CreatedInTick(st, current_tick, index)
                  THEN [NoOp EXCEPT
                          !.kind = kind, !.index = index,
                          !.stored = (Leaf(st'.rollback, index).data[chunk_idx(index)]
                                        # Leaf(st.rollback, index).data[chunk_idx(index)])]
                  ELSE IF kind = "absent"
                  THEN [NoOp EXCEPT !.kind = kind, !.index = index]
                  ELSE NoOp
    /\ budget' = budget - 1
    /\ UNCHANGED <<current_tick, idxs, vals, rollbacks, issued, sched, other>>

\* storage.set(&Frame::new(current_tick), i, v).  Line 150: the assert on the
\* storage index panics, before anything is written, for an index of 64^3 or
\* more
Set ==
    \E i \in idxs, v \in vals :
        /\ budget > 0
        /\ IF storage_idx(i) < W
           THEN Record(set(st, current_tick, i, v), "overwrite", i,
                       [pat EXCEPT ![i] = PatSet(@)])
           ELSE /\ last_op' = [NoOp EXCEPT !.kind = "panic", !.index = i]
                /\ budget' = budget - 1
                /\ UNCHANGED <<st, current_tick, idxs, vals, hist, pat, rollbacks,
                               issued, sched, other>>

\* storage.remove(&Frame::new(current_tick), i); "absent" where it returns false
Remove ==
    \E i \in idxs :
        /\ budget > 0
        /\ Record(remove(st, current_tick, i),
                  IF remove_finds(st, i) THEN "op" ELSE "absent", i,
                  IF remove_finds(st, i) THEN [pat EXCEPT ![i] = PatRemove(@)] ELSE pat)

\* A system's query hands out a ViewMut for a present slot and the system
\* assigns through it
Write ==
    \E i \in idxs, v \in vals :
        /\ budget > 0
        /\ remove_finds(st, i)
        /\ Record(query_write(st, current_tick, i, v), "overwrite", i,
                  [pat EXCEPT ![i] = IF @ \in {"none", "write"} THEN "write"
                                     ELSE "other"])

\* entities.spawn(&Frame::new(current_tick)); issued collects the entities
\* spawn has returned
SpawnEntity ==
    /\ budget > 0
    /\ spawn_index(st) \in idxs \cup {-1}
    /\ st' = collect_dead(spawn(st, current_tick))
    /\ hist' = [hist EXCEPT ![current_tick + 1] = Snapshot(st')]
    /\ pat' = IF spawn_index(st) = -1 THEN pat
              ELSE [pat EXCEPT ![spawn_index(st)] = PatSet(@)]
    /\ last_op' = IF spawn_index(st) = -1 THEN [NoOp EXCEPT !.kind = "spawn_none"]
                  ELSE [NoOp EXCEPT !.kind = "spawn", !.index = spawn_index(st),
                                    !.entity = entity_new(spawn_index(st),
                                                          st'.generation)]
    /\ issued' = IF spawn_index(st) = -1 THEN issued
                 ELSE issued \cup {entity_new(spawn_index(st), st'.generation)}
    /\ budget' = budget - 1
    /\ UNCHANGED <<current_tick, idxs, vals, rollbacks, sched, other>>

Spawn ==
    /\ st.generation \in {<<n, 0, 0, 0>> : n \in 0 .. MaxGen - 1}
    /\ SpawnEntity

\* storage.clear_changed_masks()
ClearChangedMasks ==
    /\ budget > 0
    /\ st.changed_mask # {}
    /\ st' = clear_changed_masks(st)
    /\ budget' = budget - 1
    /\ last_op' = NoOp
    /\ UNCHANGED <<current_tick, idxs, vals, hist, pat, rollbacks, issued, sched, other>>

\* World::run: the tick advances; the storage is as the previous tick left it
AdvanceTo(limit) ==
    /\ current_tick < limit
    /\ current_tick' = current_tick + 1
    /\ hist' = Append(hist, hist[Len(hist)])
    /\ pat' = NoPat
    /\ last_op' = NoOp
    /\ UNCHANGED <<st, idxs, vals, budget, rollbacks, issued, sched, other>>

AdvanceTick == AdvanceTo(MaxTick)

\* World::rollback(target): Storage::rollback(target), then set_tick(target)
RollbackTo(target) ==
    /\ budget > 0
    /\ st' = collect_dead(rollback(st, target))
    /\ current_tick' = target
    /\ hist' = SubSeq(hist, 1, target + 1)
    /\ pat' = IF target = current_tick THEN pat
              ELSE [i \in AllIndices |-> "other"]
    /\ last_op' = [NoOp EXCEPT !.kind = "rollback",
                               !.open_later = (st.rollback.tick > target),
                               !.second = (last_op.kind = "rollback"
                                               /\ target < current_tick),
                               !.from_tick = current_tick,
                               !.later =
                                   Len(SelectSeq(st.prev,
                                                 LAMBDA j : j.tick > target))
                                       + (IF st.rollback.tick > target
                                          THEN 1 ELSE 0),
                               !.pat = [i \in AllIndices |->
                                           PatKept(pat[i],
                                                   StartValue(current_tick, i))]]
    /\ budget' = budget - 1
    /\ rollbacks' = rollbacks + 1
    /\ UNCHANGED <<idxs, vals, issued, sched, other>>

Rollback == \E target \in 0 .. current_tick : RollbackTo(target)

InitWith(I, V, B) ==
    /\ st = NewStorage
    /\ current_tick = 0
    /\ idxs = I
    /\ vals = V
    /\ budget = B
    /\ hist = <<Snapshot(NewStorage)>>
    /\ pat = NoPat
    /\ last_op = NoOp
    /\ rollbacks = 0
    /\ issued = {}
    /\ sched = NewScheduler
    /\ other = NewStorage

\* One chunk: two slots of the chunk at page 0 of storage position 0
Init == InitWith({0, 1}, {<<1>>, <<2>>}, MaxOps)

Next ==
    \/ Set
    \/ Remove
    \/ Write
    \/ Spawn
    \/ ClearChangedMasks
    \/ AdvanceTick
    \/ Rollback

Spec == Init /\ [][Next]_vars


----------------------------------------------------------------------------
(* The tree: slots in two pages and three chunks *)

\* A freed chunk a pointer still refers to: its memory may be handed out again
\* and then holds what some other chunk holds, or a fresh chunk.
FreedReuse ==
    \E c \in DOMAIN st.chunks, d \in DOMAIN st.chunks :
        /\ ~st.chunks[c].live
        /\ d = DefaultPtr \/ st.chunks[d].live
        /\ st.chunks[c] # [st.chunks[d] EXCEPT !.live = FALSE]
        /\ st' = [st EXCEPT !.chunks[c] = [st.chunks[d] EXCEPT !.live = FALSE]]
        /\ hist' = [hist EXCEPT ![current_tick + 1] = Snapshot(st')]
        /\ last_op' = NoOp
        /\ UNCHANGED <<current_tick, idxs, vals, budget, pat, rollbacks, issued, sched, other>>

AdvanceTickTree == AdvanceTo(MaxTickTree)

InitTree == InitWith({0, 65, 4160, W * PageSlots}, {<<1>>}, MaxOpsTree)

NextTree ==
    \/ Set
    \/ Remove
    \/ AdvanceTickTree
    \/ Rollback
    \/ FreedReuse

SpecTree == InitTree /\ [][NextTree]_vars

----------------------------------------------------------------------------
(* The journal window: one Set per tick for many ticks *)

WindowValue(t) == IF t % 2 = 0 THEN <<1>> ELSE <<2>>

\* The storage after storage.set(&Frame::new(Tick(k)), 0, ..) for k = 0 .. n,
\* with the observations at the end of each of these ticks: acc is the pair
\* at the end of tick t - 1
PrehistoryStep(S, h) == [st |-> S, hist |-> Append(h, Snapshot(S))]

RECURSIVE Prehistory(_, _, _)
Prehistory(acc, t, n) ==
    IF acc.st.count >= 0 /\ t > n THEN acc
    ELSE Prehistory(PrehistoryStep(set(acc.st, t, 0, WindowValue(t)), acc.hist),
                    t + 1, n)

AdvanceTickWindow == AdvanceTo(WindowMax + 1)

InitWindow ==
    \E n \in WindowMin .. WindowMax :
        /\ st = Prehistory([st |-> NewStorage, hist |-> <<>>], 0, n).st
        /\ current_tick = n
        /\ idxs = {0, 1}
        /\ vals = {<<1>>}
        /\ budget = MaxOpsWindow
        /\ hist = Prehistory([st |-> NewStorage, hist |-> <<>>], 0, n).hist
        /\ pat = NoPat
        /\ last_op = NoOp
        /\ rollbacks = 0
        /\ issued = {}
        /\ sched = NewScheduler
        /\ other = NewStorage

NextWindow ==
    \/ Set
    \/ Remove
    \/ AdvanceTickWindow
    \/ Rollback

SpecWindow == InitWindow /\ [][NextWindow]_vars


----------------------------------------------------------------------------
(* Past the journal window: more ticks than the deque of sealed journals holds *)

\* The tag of the oldest journal the storage still holds: the front of the
\* deque ensure_rollback_tick pushes to and pops from, or the open journal
OldestTick(S) == IF Len(S.prev) > 0 THEN S.prev[1].tick ELSE S.rollback.tick

AdvanceTickBeyond == AdvanceTo(BeyondMax + 1)

InitBeyond ==
    \E n \in BeyondMin .. BeyondMax :
        /\ st = Prehistory([st |-> NewStorage, hist |-> <<>>], 0, n).st
        /\ current_tick = n
        /\ idxs = {0, 1}
        /\ vals = {<<1>>}
        /\ budget = MaxOpsBeyond
        /\ hist = Prehistory([st |-> NewStorage, hist |-> <<>>], 0, n).hist
        /\ pat = NoPat
        /\ last_op = NoOp
        /\ rollbacks = 0
        /\ issued = {}
        /\ sched = NewScheduler
        /\ other = NewStorage

NextBeyond ==
    \/ Set
    \/ Remove
    \/ AdvanceTickBeyond
    \/ Rollback

SpecBeyond == InitBeyond /\ [][NextBeyond]_vars

----------------------------------------------------------------------------
(* Entities: Storage<Entity> with spawn, from a fresh storage, from one    *)
(* whose counter is about to pass 2^43 or 2^64, and from a full one        *)

\* Storage::save_generation_for_rollback: the counter is written into the
\* open journal.  Nothing in the library calls it; a caller may.
SaveGeneration ==
    /\ budget > 0
    /\ st.rollback.generation_at_tick_start # st.generation
    /\ st' = [st EXCEPT !.rollback.generation_at_tick_start = st.generation]
    /\ budget' = budget - 1
    /\ last_op' = NoOp
    /\ UNCHANGED <<current_tick, idxs, vals, hist, pat, rollbacks, issued, sched, other>>

\* The counter after 2^43 - 1 spawns and after 2^64 - 2 spawns
GenerationStarts == {<<65535, 65535, 2047, 0>>, <<65534, 65535, 65535, 65535>>}

\* The storage after that many spawn, each but the last followed by the
\* remove of the entity, and the remove of the last, all at tick 0: every
\* spawn takes slot 0 and the remove leaves the storage empty again, so all
\* these storages are the one after the first spawn and remove, but for the
\* counter
Recycled(g) ==
    [collect_dead(remove(spawn(NewStorage, 0), 0, 0)) EXCEPT !.generation = g]

\* The storage after 64 * 64 * 64 spawn at tick 0: slot i holds the entity of
\* index i and generation i + 1, every mask of the tree is full, and the open
\* journal records every slot as created.  Pages and chunks outside SIdx and
\* PIdx are left out of heap and pools.
Saturated ==
    LET gen(n) == <<n % 65536, n \div 65536, 0, 0>>
        at(s, p, i) == s * PageSlots + p * W + i
        pptr(s) == 1 + s
        cptr(s, p) == 1 + 2 * s + p
    IN  [presence_mask |-> FullMask, fullness_mask |-> FullMask,
         changed_mask |-> FullMask, count |-> W * PageSlots,
         rollback |->
             [changed_mask |-> FullMask, tick |-> 0,
              generation_at_tick_start |-> NoGeneration,
              data |-> [s \in SIdx |->
                  [changed_mask |-> FullMask,
                   data |-> [p \in PIdx |->
                       [NewRollbackChunk EXCEPT !.created_mask = FullMask]]]]],
         prev |-> <<>>, rollback_pool |-> 0,
         page_pool |-> <<[k \in 1 .. 2 |-> k]>>,
         chunk_pool |-> <<[k \in 1 .. 4 |-> k]>>,
         data |-> [s \in SIdx |-> pptr(s)],
         generation |-> gen(W * PageSlots),
         is_zst |-> FALSE,
         pages |-> [q \in 0 .. 2 |->
             IF q = DefaultPtr THEN NewPage(0)
             ELSE [presence_mask |-> FullMask, fullness_mask |-> FullMask,
                   changed_mask |-> FullMask, count |-> PageSlots,
                   data |-> [p \in PIdx |-> cptr(q - 1, p)],
                   owner_index |-> q - 1]],
         chunks |-> [c \in 0 .. 4 |->
             IF c = DefaultPtr THEN NewChunk(0)
             ELSE [presence_mask |-> FullMask, fullness_mask |-> FullMask,
                   changed_mask |-> FullMask,
                   data |-> [i \in CIdx |->
                       entity_new(at((c - 1) \div 2, (c - 1) % 2, i),
                                  gen(at((c - 1) \div 2, (c - 1) % 2, i) + 1))],
                   owner_index |-> (c - 1) % 2, live |-> TRUE]]]

\* World::rollback(target) where the journals tagged after the target hold
\* diffs of pages and chunks at SIdx and PIdx only: a rollback that undoes the
\* 64 * 64 * 64 spawns of the full storage is left out
RollbackEntity ==
    \E target \in 0 .. current_tick :
        /\ \A j \in {x \in Journals(st) : x.tick > target} :
               /\ j.changed_mask \subseteq SIdx
               /\ \A s \in j.changed_mask : j.data[s].changed_mask \subseteq PIdx
        /\ RollbackTo(target)

\* issued starts with the first entity any storage issues, (0, 1), where
\* spawns went before, and with the entities of the slots the operations
\* reach where the storage is full
InitEntity ==
    /\ \/ st = NewStorage /\ issued = {}
       \/ \E g \in GenerationStarts :
              /\ st = Recycled(g)
              /\ issued = {entity_new(0, next_generation(NoGeneration))}
       \/ /\ st = Saturated
          /\ issued = {get(Saturated, i) : i \in {0, 1, 65}}
    /\ current_tick = 0
    /\ idxs = {0, 1, 65}
    /\ vals = {}
    /\ budget = MaxOpsEntity
    /\ hist = <<Snapshot(st)>>
    /\ pat = NoPat
    /\ last_op = NoOp
    /\ rollbacks = 0
    /\ sched = NewScheduler
    /\ other = NewStorage

NextEntity ==
    \/ SpawnEntity
    \/ Remove
    \/ SaveGeneration
    \/ AdvanceTick
    \/ RollbackEntity

SpecEntity == InitEntity /\ [][NextEntity]_vars

-----------------------------------------------------------------------------
(* Queries: the run() the system! macro generates, over the storage st of   *)
(* a required component type and the storage other of a second type that   *)
(* the query names under None= or under All=, with or without Changed= of  *)
(* the first type.  The handler takes a View and writes nothing.           *)

\* lib.rs lines 531-575 with the page mask as if line 536-538 or'ed the
\* presence masks of the pages of the None= storage
query_page_none_present(A, B, role, changed, si) ==
    LET page_0 == A.pages[A.data[si]]
        ns_page == B.pages[B.data[si]]
        page_mask ==
            IF role = "All"
            THEN (page_0.presence_mask \cap ns_page.presence_mask)
                     \cap (IF changed THEN page_0.changed_mask ELSE FullMask)
            ELSE (page_0.presence_mask
                     \cap (IF changed THEN page_0.changed_mask ELSE FullMask))
                     \ ns_page.presence_mask
    IN  UNION {LET chunk_0 == A.chunks[page_0.data[pi]]
                   ns_chunk == B.chunks[ns_page.data[pi]]
                   item_mask ==
                       IF role = "All"
                       THEN (chunk_0.presence_mask \cap ns_chunk.presence_mask)
                                \cap (IF changed THEN chunk_0.changed_mask ELSE FullMask)
                       ELSE (chunk_0.presence_mask
                                \cap (IF changed THEN chunk_0.changed_mask ELSE FullMask))
                                \ ns_chunk.presence_mask
               IN  {si * PageSlots + pi * W + ci : ci \in item_mask} : pi \in page_mask}

\* lib.rs lines 531-575, the body of the loop over the pages of storage_mask:
\* the page mask of lines 533-538, and for each of its chunks the item mask of
\* lines 549-557; the handler is called on every slot of the item mask
query_page(A, B, role, changed, si) ==
    LET page_0 == A.pages[A.data[si]]
        ns_page == B.pages[B.data[si]]
        page_mask ==
            IF role = "All"
            THEN (page_0.presence_mask \cap ns_page.presence_mask)
                     \cap (IF changed THEN page_0.changed_mask ELSE FullMask)
            ELSE (page_0.presence_mask
                     \cap (IF changed THEN page_0.changed_mask ELSE FullMask))
                     \ ns_page.fullness_mask
    IN  UNION {LET chunk_0 == A.chunks[page_0.data[pi]]
                   ns_chunk == B.chunks[ns_page.data[pi]]
                   item_mask ==
                       IF role = "All"
                       THEN (chunk_0.presence_mask \cap ns_chunk.presence_mask)
                                \cap (IF changed THEN chunk_0.changed_mask ELSE FullMask)
                       ELSE (chunk_0.presence_mask
                                \cap (IF changed THEN chunk_0.changed_mask ELSE FullMask))
                                \ ns_chunk.presence_mask
               IN  {si * PageSlots + pi * W + ci : ci \in item_mask} : pi \in page_mask}

\* System::run, lib.rs lines 523-583: the slots the handler is called on.
\* Line 525: the pages present in every required storage, less the pages
\* full in the None= storage
query_slots(A, B, role, changed) ==
    UNION {query_page(A, B, role, changed, si) :
              si \in IF role = "All" THEN A.presence_mask \cap B.presence_mask
                     ELSE A.presence_mask \ B.fullness_mask}

\* system.run(&frame) of a system with fn(a: View<A>), and None=[B] or All=[B],
\* and Changed=[A] or not
Query ==
    \E role \in {"None", "All"}, changed \in BOOLEAN :
        /\ last_op' = [NoOp EXCEPT !.kind = "query", !.query = <<role, changed>>,
                                   !.visited = query_slots(st, other, role, changed)]
        /\ UNCHANGED <<st, current_tick, idxs, vals, budget, hist, pat, rollbacks,
                       issued, sched, other>>

\* The storage of the second type: set(&frame, i, v)
SetOther ==
    \E i \in idxs, v \in vals :
        /\ budget > 0
        /\ other' = collect_dead(set(other, current_tick, i, v))
        /\ budget' = budget - 1
        /\ last_op' = NoOp
        /\ UNCHANGED <<st, current_tick, idxs, vals, hist, pat, rollbacks, issued, sched>>

\* The storage of the second type: remove(&frame, i)
RemoveOther ==
    \E i \in idxs :
        /\ budget > 0
        /\ other' = collect_dead(remove(other, current_tick, i))
        /\ budget' = budget - 1
        /\ last_op' = NoOp
        /\ UNCHANGED <<st, current_tick, idxs, vals, hist, pat, rollbacks, issued, sched>>

\* The second storage starts empty or with every slot present
InitQuery ==
    /\ st = NewStorage
    /\ other \in {NewStorage, Saturated}
    /\ current_tick = 0
    /\ idxs = AllIndices
    /\ vals = {<<1>>}
    /\ budget = MaxOpsQuery
    /\ hist = <<Snapshot(NewStorage)>>
    /\ pat = NoPat
    /\ last_op = NoOp
    /\ rollbacks = 0
    /\ issued = {}
    /\ sched = NewScheduler

NextQuery ==
    \/ Set
    \/ Remove
    \/ ClearChangedMasks
    \/ SetOther
    \/ RemoveOther
    \/ Query

SpecQuery == InitQuery /\ [][NextQuery]_vars

----------------------------------------------------------------------------
(* ComponentCleanupSystem<T>: system.rs.  st is the storage of T, other    *)
(* the storage of Destroyed.                                                *)

\* The order in which the loops of lines 113-118, 123-128 and 143-148 visit a
\* mask: the runs of consecutive set bits in ascending order, the bits of one
\* run in descending order (.rev()).
RECURSIVE RunsReversed(_)
RunsReversed(mask) ==
    IF mask = {} THEN <<>>
    ELSE LET start == Min(mask)
             end == Min({e \in mask : e >= start /\ (e + 1) \notin mask})
         IN  [k \in 1 .. (end - start + 1) |-> end - k + 1]
                 \o RunsReversed(mask \ (start .. end))

\* Lines 152-193: the open journal takes the removal of slot ci whatever its
\* tick; the journal is not rotated to the frame's tick.
cleanup_journal(S, ct, si, pi, ci, old_value) ==
    LET probe == rb_chunk(S.rollback, si, pi)
        was_created_in_rollback ==
            IF S.rollback.tick # ct THEN FALSE
            ELSE /\ ci \in probe.created_mask
                 /\ ~(ci \in probe.changed_mask \/ ci \in probe.removed_mask)
    IN  [S EXCEPT !.rollback =
            IF ~was_created_in_rollback
            THEN [get_or_create(@, si, pi) EXCEPT
                    !.data[si].data[pi] = remove_leaf(@, ci, old_value)]
            ELSE [@ EXCEPT !.data[si].data[pi].created_mask = @ \ {ci},
                           !.data[si].data[pi].removed_mask = @ \ {ci},
                           !.data[si].data[pi].changed_mask = @ \ {ci}]]

\* Lines 195-201: the masks and counts of the chunk, the page and the storage
cleanup_masks(S, si, pi, ci) ==
    LET pptr == S.data[si]
        cptr == S.pages[pptr].data[pi]
    IN  [S EXCEPT !.chunks[cptr].data[ci] = Uninit,
                  !.chunks[cptr].presence_mask = @ \ {ci},
                  !.chunks[cptr].fullness_mask = @ \ {ci},
                  !.chunks[cptr].changed_mask = @ \cup {ci},
                  !.pages[pptr].changed_mask = @ \cup {pi},
                  !.pages[pptr].count = IF @ > 0 THEN @ - 1 ELSE 0,
                  !.changed_mask = @ \cup {si},
                  !.count = IF @ > 0 THEN @ - 1 ELSE 0]

\* Lines 203-219: a chunk left empty is freed, the pointer the pool reports as
\* moved is stored in this page, and the page forgets the chunk
cleanup_chunk(S, si, pi) ==
    LET pptr == S.data[si]
        cptr == S.pages[pptr].data[pi]
    IN  IF S.chunks[cptr].presence_mask # {} THEN S
        ELSE [free_chunk(S, pptr, cptr) EXCEPT
                !.pages[pptr].data[pi] = DefaultPtr,
                !.pages[pptr].presence_mask = @ \ {pi},
                !.pages[pptr].fullness_mask = @ \ {pi}]

\* Lines 143-223: the slots cis of one chunk, in order
RECURSIVE cleanup_slots(_, _, _, _, _)
cleanup_slots(S, ct, si, pi, cis) ==
    IF cis = <<>> THEN S
    ELSE LET ci == Head(cis)
             old_value == S.chunks[S.pages[S.data[si]].data[pi]].data[ci]
         IN  cleanup_slots(
                 cleanup_chunk(
                     cleanup_masks(cleanup_journal(S, ct, si, pi, ci, old_value),
                                   si, pi, ci),
                     si, pi),
                 ct, si, pi, Tail(cis))

\* Lines 130-232: the chunk at pi; its masks are read through the pointers the
\* page holds when the loop reaches it, and the storage's fullness bit of the
\* page is recomputed after it
cleanup_page_idx(S, D, ct, si, pi) ==
    LET t_chunk_mask == S.chunks[S.pages[S.data[si]].data[pi]].presence_mask
        destroyed_chunk_mask ==
            D.chunks[D.pages[D.data[si]].data[pi]].presence_mask
        S1 == cleanup_slots(S, ct, si, pi,
                            RunsReversed(t_chunk_mask \cap destroyed_chunk_mask))
        page_is_full == S1.pages[S1.data[si]].count = PageSlots
    IN  [S1 EXCEPT !.fullness_mask =
            (IF page_is_full THEN @ \cup {si} ELSE @ \ {si})
                \cap S1.presence_mask]

\* Lines 113-239: the chunks pis of the page at si, in order, then the pages
\* sis; the masks of a page are read when the loop reaches it
RECURSIVE cleanup_storage_idxs(_, _, _, _, _)
cleanup_storage_idxs(S, D, ct, sis, pis) ==
    IF pis # <<>>
    THEN cleanup_storage_idxs(cleanup_page_idx(S, D, ct, Head(sis), Head(pis)),
                              D, ct, sis, Tail(pis))
    ELSE IF sis = <<>> \/ Tail(sis) = <<>> THEN S
    ELSE LET si == Head(Tail(sis))
             page_mask_iter == S.pages[S.data[si]].presence_mask
                                   \cap D.pages[D.data[si]].presence_mask
         IN  cleanup_storage_idxs(S, D, ct, Tail(sis),
                                  RunsReversed(page_mask_iter))

\* ComponentCleanupSystem::cleanup_destroyed_components(frame) with
\* frame.current_tick = ct (lines 107-248)
cleanup_destroyed_components(S, D, ct) ==
    LET sis == RunsReversed(S.presence_mask \cap D.presence_mask)
        first_mask == IF sis = <<>> THEN {}
                      ELSE S.pages[S.data[Head(sis)]].presence_mask
                               \cap D.pages[D.data[Head(sis)]].presence_mask
    IN  clear_changed_masks(
            cleanup_storage_idxs(S, D, ct, sis, RunsReversed(first_mask)))

\* ComponentCleanupSystem::run(&Frame::new(current_tick))
Cleanup ==
    /\ budget > 0
    /\ st' = collect_dead(cleanup_destroyed_components(st, other, current_tick))
    /\ hist' = [hist EXCEPT ![current_tick + 1] = Snapshot(st')]
    /\ pat' = [i \in AllIndices |->
                  IF Present(st, i) /\ Present(other, i) THEN "other" ELSE pat[i]]
    /\ last_op' = [NoOp EXCEPT
                     !.kind = "cleanup",
                     !.visited = {i \in AllIndices :
                                     Present(st, i) /\ Present(other, i)}]
    /\ budget' = budget - 1
    /\ UNCHANGED <<current_tick, idxs, vals, rollbacks, issued, sched, other>>

InitCleanup == InitWith(AllIndices, {<<1>>}, MaxOpsCleanup)

NextCleanup ==
    \/ Set
    \/ SetOther
    \/ AdvanceTickTree
    \/ Cleanup
    \/ Rollback

SpecCleanup == InitCleanup /\ [][NextCleanup]_vars

\* A storage of a zero-sized component type (size_of::<T>() == 0, storage.rs
\* line 634), two slots of one chunk
InitZst ==
    /\ st = [NewStorage EXCEPT !.is_zst = TRUE]
    /\ current_tick = 0
    /\ idxs = {0, 1}
    /\ vals = {<<1>>}
    /\ budget = MaxOpsZst
    /\ hist = <<Snapshot(NewStorage)>>
    /\ pat = NoPat
    /\ last_op = NoOp
    /\ rollbacks = 0
    /\ issued = {}
    /\ sched = NewScheduler
    /\ other = NewStorage

NextZst ==
    \/ Set
    \/ Remove
    \/ AdvanceTick
    \/ Rollback

SpecZst == InitZst /\ [][NextZst]_vars

----------------------------------------------------------------------------
(* Scheduler: scheduler.rs.  Systems are numbered from 1 in the order of   *)
(* add_system; a wavefront is the set of the systems of one level.         *)

\* The groups: the four of world.rs, each After the one before it, and a user
\* group with a Parent and a Before
GroupDecl ==
    [g \in {"Initialization", "Simulation", "Cleanup", "Destroy", "Nested"} |->
        CASE g = "Initialization" -> [before |-> {}, after |-> {}, parent |-> "none"]
          [] g = "Simulation" ->
                 [before |-> {}, after |-> {"Initialization"}, parent |-> "none"]
          [] g = "Cleanup" ->
                 [before |-> {}, after |-> {"Simulation"}, parent |-> "none"]
          [] g = "Destroy" ->
                 [before |-> {}, after |-> {"Cleanup"}, parent |-> "none"]
          [] OTHER -> [before |-> {"Cleanup"}, after |-> {}, parent |-> "Simulation"]]

\* The systems add_system is called with: the system of type ty reads or
\* writes the component types X and Y, and declares nothing more, or one
\* system type as before or after, or a parent group
SystemChoices(ty) ==
    LET access == {[reads |-> {"X"}, writes |-> {}], [reads |-> {}, writes |-> {"X"}],
                   [reads |-> {"Y"}, writes |-> {"X"}],
                   [reads |-> {"X"}, writes |-> {"Y"}]}
        order == {[before |-> {}, after |-> {}, parent |-> "none"]}
                     \cup {[before |-> {t}, after |-> {}, parent |-> "none"] :
                               t \in 1 .. MaxSystems}
                     \cup {[before |-> {}, after |-> {t}, parent |-> "none"] :
                               t \in 1 .. MaxSystems}
                     \cup {[before |-> {}, after |-> {}, parent |-> g] :
                               g \in DOMAIN GroupDecl}
    IN  {[ty |-> ty, reads |-> a.reads, writes |-> a.writes, before |-> o.before,
          after |-> o.after, parent |-> o.parent] : a \in access, o \in order}

\* has_conflict (lines 75-88)
has_conflict(sys, a, b) ==
    \/ sys[a].writes \cap sys[b].writes # {}
    \/ sys[a].writes \cap sys[b].reads # {}
    \/ sys[b].writes \cap sys[a].reads # {}

\* groups_by_system (lines 127-139): the group and its parents
RECURSIVE parent_chain(_)
parent_chain(g) ==
    IF g = "none" THEN {} ELSE {g} \cup parent_chain(GroupDecl[g].parent)

\* compute_wavefronts without lines 91-111: before and after are ignored
system_edges_ignored(sys) == {}

\* Lines 91-111: the edges of the systems' before and after, between
\* conflicting systems only
system_edges(sys) ==
    {e \in (1 .. Len(sys)) \X (1 .. Len(sys)) :
        /\ e[1] # e[2]
        /\ has_conflict(sys, e[1], e[2])
        /\ \/ sys[e[2]].ty \in sys[e[1]].before
           \/ sys[e[1]].ty \in sys[e[2]].after}

\* Lines 141-166 with the parent of a system in place of its chain of groups:
\* membership through a nested group is lost
group_edges_direct_parent(sys) ==
    {e \in (1 .. Len(sys)) \X (1 .. Len(sys)) :
        /\ e[1] # e[2]
        /\ has_conflict(sys, e[1], e[2])
        /\ sys[e[1]].parent # "none"
        /\ sys[e[2]].parent # "none"
        /\ \/ sys[e[2]].parent \in GroupDecl[sys[e[1]].parent].before
           \/ sys[e[1]].parent \in GroupDecl[sys[e[2]].parent].after}

\* Lines 141-166: constrained_edges, the edges of the groups' before and
\* after, between conflicting systems only
group_edges(sys) ==
    {e \in (1 .. Len(sys)) \X (1 .. Len(sys)) :
        /\ e[1] # e[2]
        /\ has_conflict(sys, e[1], e[2])
        /\ \/ \E g \in parent_chain(sys[e[1]].parent) :
                 GroupDecl[g].before \cap parent_chain(sys[e[2]].parent) # {}
           \/ \E g \in parent_chain(sys[e[2]].parent) :
                 GroupDecl[g].after \cap parent_chain(sys[e[1]].parent) # {}}

\* compute_wavefronts with lines 168-190 cut down to the chain of writers: no
\* writer to reader edges
access_edges_writers_only(sys) ==
    {e \in (1 .. Len(sys)) \X (1 .. Len(sys)) :
        /\ e[1] < e[2]
        /\ <<e[2], e[1]>> \notin group_edges(sys)
        /\ \E t \in sys[e[1]].writes \cap sys[e[2]].writes :
              \A k \in (e[1] + 1) .. (e[2] - 1) : t \notin sys[k].writes}

\* Lines 168-190: writer to reader, and each writer of a type to the next
\* writer of it, but for the edges a group edge runs against
access_edges(sys) ==
    {e \in (1 .. Len(sys)) \X (1 .. Len(sys)) :
        /\ e[1] # e[2]
        /\ <<e[2], e[1]>> \notin group_edges(sys)
        /\ \/ sys[e[1]].writes \cap sys[e[2]].reads # {}
           \/ \E t \in sys[e[1]].writes \cap sys[e[2]].writes :
                 /\ e[1] < e[2]
                 /\ \A k \in (e[1] + 1) .. (e[2] - 1) : t \notin sys[k].writes}

\* Lines 248-292 with the remainder of lines 259-270 dropped
RECURSIVE topological_levels_without_remainder(_, _, _)
topological_levels_without_remainder(n, edges, levels) ==
    LET done == UNION {levels[k] : k \in 1 .. Len(levels)}
        ready == {v \in (1 .. n) \ done :
                     \A u \in 1 .. n : <<u, v>> \in edges => u \in done}
    IN  IF done = 1 .. n \/ ready = {} THEN levels
        ELSE topological_levels_without_remainder(n, edges, Append(levels, ready))

\* DependencyGraph::topological_levels as if the remainder of lines 259-269
\* were every system, whatever its in-degree
RECURSIVE topological_levels_remainder_all(_, _, _)
topological_levels_remainder_all(n, edges, levels) ==
    LET done == UNION {levels[k] : k \in 1 .. Len(levels)}
        ready == {v \in (1 .. n) \ done :
                     \A u \in 1 .. n : <<u, v>> \in edges => u \in done}
    IN  IF done = 1 .. n THEN levels
        ELSE IF ready = {} THEN Append(levels, 1 .. n)
        ELSE topological_levels_remainder_all(n, edges, Append(levels, ready))

\* DependencyGraph::topological_levels: the systems all of whose predecessors
\* are in earlier levels form the next level; where none is left with
\* in-degree 0, the remaining systems form the last level
RECURSIVE topological_levels(_, _, _)
topological_levels(n, edges, levels) ==
    LET done == UNION {levels[k] : k \in 1 .. Len(levels)}
        ready == {v \in (1 .. n) \ done :
                     \A u \in 1 .. n : <<u, v>> \in edges => u \in done}
    IN  IF done = 1 .. n THEN levels
        ELSE IF ready = {} THEN Append(levels, (1 .. n) \ done)
        ELSE topological_levels(n, edges, Append(levels, ready))

\* The graph compute_wavefronts builds
dependency_graph(sys) == system_edges(sys) \cup group_edges(sys) \cup access_edges(sys)

\* Scheduler::compute_wavefronts
compute_wavefronts(sys) == topological_levels(Len(sys), dependency_graph(sys), <<>>)

\* scheduler.add_system(system)
AddSystem ==
    \E system \in SystemChoices(Len(sched.systems) + 1) :
        /\ Len(sched.systems) < MaxSystems
        /\ sched' = [systems |-> Append(sched.systems, system), wavefronts |-> <<>>]
        /\ UNCHANGED <<st, current_tick, idxs, vals, budget, hist, pat, last_op,
                       rollbacks, issued, other>>

\* scheduler.build_wavefronts()
BuildWavefronts ==
    /\ sched.wavefronts = <<>>
    /\ sched' = [sched EXCEPT !.wavefronts = compute_wavefronts(sched.systems)]
    /\ UNCHANGED <<st, current_tick, idxs, vals, budget, hist, pat, last_op,
                   rollbacks, issued, other>>

InitScheduler == InitWith({}, {}, 0)

NextScheduler ==
    \/ AddSystem
    \/ BuildWavefronts

SpecScheduler == InitScheduler /\ [][NextScheduler]_vars

\* The wavefront of system i, and whether the graph of the systems has a cycle
WaveOf(i) == CHOOSE k \in 1 .. Len(sched.wavefronts) : i \in sched.wavefronts[k]

HasCycle(edges, n) ==
    \E C \in SUBSET (1 .. n) :
        C # {} /\ \A v \in C : \E u \in C : <<u, v>> \in edges

----------------------------------------------------------------------------
(* Invariants of the storage tree (spec I1-I5), read through its pointers *)

PageAt(S, s) == S.pages[S.data[s]]

ChunkAt(S, s, p) == S.chunks[PageAt(S, s).data[p]]

RECURSIVE SumOver(_, _)
SumOver(f, D) ==
    IF D = {} THEN 0 ELSE LET x == Min(D) IN f[x] + SumOver(f, D \ {x})

TreeInvariants(S) ==
    /\ S.fullness_mask \subseteq S.presence_mask
    /\ S.count = SumOver([s \in SIdx |-> PageAt(S, s).count], SIdx)
    /\ \A s \in SIdx :
          LET pg == PageAt(S, s)
          IN  /\ pg.fullness_mask \subseteq pg.presence_mask
              /\ s \in S.fullness_mask <=> pg.count = PageSlots
              /\ s \in S.presence_mask <=> pg.count # 0
              /\ pg.count = SumOver([p \in PIdx |->
                                        Cardinality(ChunkAt(S, s, p).presence_mask)],
                                    PIdx)
              /\ \A p \in PIdx :
                    LET ch == ChunkAt(S, s, p)
                    IN  /\ p \in pg.presence_mask => ch.live
                        /\ ch.fullness_mask = ch.presence_mask
                        /\ p \in pg.fullness_mask <=> ch.presence_mask = FullMask
                        /\ p \in pg.presence_mask <=> ch.presence_mask # {}



\* Lines 685-717 for the one slot ci of the chunk at (s, p): the clones
\* (line 704) and the drops (line 699) the journals of the chain perform on it;
\* acc = [present, processed, pending, clones, drops]
RECURSIVE restore_slot_ops(_, _, _, _, _, _)
restore_slot_ops(acc, chain, k, s, p, ci) ==
    IF k > Len(chain) THEN acc
    ELSE
      LET rc == rb_chunk(chain[k], s, p)
          restored == /\ ci \in (rc.changed_mask \cup rc.removed_mask)
                      /\ ~acc.processed
          processed == acc.processed \/ restored
      IN  restore_slot_ops(
              [present |-> acc.present \/ restored,
               processed |-> processed,
               pending |-> acc.pending \/ (ci \in rc.created_mask /\ ~processed),
               clones |-> acc.clones + (IF restored THEN 1 ELSE 0),
               drops |-> acc.drops + (IF restored /\ acc.present THEN 1 ELSE 0)],
              chain, k + 1, s, p, ci)

\* Lines 682-735 for the slot at index: the clones and drops of one
\* Storage::rollback(target_tick), the drop of line 727 included
rollback_slot_ops(S, target_tick, index) ==
    LET ci == chunk_idx(index)
        pi == page_idx(index)
        si == storage_idx(index)
        acc == restore_slot_ops(
                   [present |-> Present(S, index), processed |-> FALSE,
                    pending |-> FALSE, clones |-> 0, drops |-> 0],
                   rollback_chain(S, target_tick), 1, si, pi, ci)
    IN  [clones |-> acc.clones,
         drops |-> acc.drops + (IF acc.pending /\ acc.present THEN 1 ELSE 0)]

\* Storage::verify_invariants (lines 848-893) with Page::verify_invariants_ptr
\* (lines 1262-1269): fullness within presence at the storage and at every
\* present page, the storage's count the sum of the counts the present pages
\* hold, and 4096 the count of a page the storage marks full.  The present
\* pages are among those at SIdx in every state it is applied to.
verify_invariants(S) ==
    /\ S.fullness_mask \subseteq S.presence_mask
    /\ S.count = SumOver([s \in SIdx |-> IF s \in S.presence_mask
                                         THEN PageAt(S, s).count ELSE 0], SIdx)
    /\ S.count = W * PageSlots => S.fullness_mask = S.presence_mask
    /\ \A s \in S.presence_mask \cap SIdx :
          /\ PageAt(S, s).fullness_mask \subseteq PageAt(S, s).presence_mask
          /\ s \in S.fullness_mask => PageAt(S, s).count = PageSlots

----------------------------------------------------------------------------
(* Properties *)

\* C1: after a history of Set and Remove calls over increasing ticks, the first
\* Rollback(tj) leaves the storage as it was at the end of tick tj: the same
\* value or absence at every slot, the same presence masks, fullness masks and
\* counts at every node.
C1_RoundTrip ==
    (last_op.kind = "rollback" /\ rollbacks = 1)
        => Snapshot(st) = EndOfTick(current_tick)

\* C2: after every completed Set, Remove, Spawn or Rollback the storage tree
\* satisfies I1-I5: fullness within presence at every node, fullness equal to
\* presence at every chunk, an interior fullness bit iff the child holds all
\* its slots, an interior presence bit iff the child's count is nonzero, every
\* count the sum of the children's counts.
C2_TreeInvariants == TreeInvariants(st)

\* C3: Rollback(t1) followed directly by Rollback(t2) with t2 < t1 leaves the
\* storage in the state it had at the end of tick t2.
C3_RollbackTwice ==
    (last_op.kind = "rollback" /\ last_op.second)
        => Snapshot(st) = EndOfTick(current_tick)

\* C4: after Rollback(target_tick) the open journal's tick is target_tick, no
\* sealed journal has a later tag, and an open journal that was tagged after
\* target_tick keeps none of its diffs.
C4_JournalsConsumed ==
    last_op.kind = "rollback"
        => /\ st.rollback.tick = current_tick
           /\ \A k \in 1 .. Len(st.prev) : st.prev[k].tick <= current_tick
           /\ last_op.open_later => st.rollback.changed_mask = {}

\* C5: in every journal, a slot marked changed or removed stores the value the
\* slot held at the start of the journal's tick.
C5_PreTickValue ==
    \A j \in Journals(st) : \A i \in AllIndices :
        chunk_idx(i) \in Leaf(j, i).changed_mask \cup Leaf(j, i).removed_mask
            => /\ StartValue(j.tick, i) # Uninit
               /\ Leaf(j, i).data[chunk_idx(i)] = StartValue(j.tick, i)

\* C6: a slot absent at the start of a tick and then Set and Removed within it
\* has no diff in the journal of that tick, and a Rollback to an earlier tick at
\* whose end the slot was absent leaves it absent.
C6_AddRemoveInvisible ==
    /\ \A i \in AllIndices :
          (pat[i] = "set_rm" /\ StartValue(current_tick, i) = Uninit)
              => ~(chunk_idx(i) \in Leaf(st.rollback, i).created_mask
                                        \cup Leaf(st.rollback, i).changed_mask
                                        \cup Leaf(st.rollback, i).removed_mask)
    /\ \A i \in AllIndices :
          (/\ last_op.kind = "rollback"
           /\ current_tick < last_op.from_tick
           /\ last_op.pat[i] = "set_rm"
           /\ EndOfTick(current_tick).values[i] = Uninit)
              => ~Present(st, i)

\* C7: a slot present at the start of a tick and then Removed and Set within it
\* is journaled as changed, not created and not removed, with the pre-tick
\* value stored, and a Rollback to the previous tick restores that value.
C7_RemoveAddIsChange ==
    /\ \A i \in AllIndices :
          (pat[i] = "rm_set" /\ StartValue(current_tick, i) # Uninit)
              => /\ chunk_idx(i) \in Leaf(st.rollback, i).changed_mask
                 /\ chunk_idx(i) \notin Leaf(st.rollback, i).created_mask
                 /\ chunk_idx(i) \notin Leaf(st.rollback, i).removed_mask
                 /\ Leaf(st.rollback, i).data[chunk_idx(i)]
                        = StartValue(current_tick, i)
    /\ \A i \in AllIndices :
          (/\ last_op.kind = "rollback"
           /\ current_tick + 1 = last_op.from_tick
           /\ last_op.pat[i] = "rm_set")
              => get(st, i) = EndOfTick(current_tick).values[i]

\* C8: at every journal leaf slot at most one of created, changed and removed
\* is set, and a Set or handle write that overwrites a slot created in the same
\* tick leaves it created alone and stores no value for it.
C8_OneMarkPerSlot ==
    /\ \A j \in Journals(st) : \A i \in AllIndices :
          LET c == chunk_idx(i)
              rc == Leaf(j, i)
          IN  /\ ~(c \in rc.created_mask /\ c \in rc.changed_mask)
              /\ ~(c \in rc.created_mask /\ c \in rc.removed_mask)
              /\ ~(c \in rc.changed_mask /\ c \in rc.removed_mask)
    /\ last_op.kind = "overwrite"
          => LET c == chunk_idx(last_op.index)
                 rc == Leaf(st.rollback, last_op.index)
             IN  /\ c \in rc.created_mask
                 /\ c \notin rc.changed_mask \cup rc.removed_mask
                 /\ ~last_op.stored

C10_WholeWindow ==
    (last_op.kind = "rollback" /\ rollbacks = 1 /\ last_op.later <= PrevCap + 1)
        => Snapshot(st) = EndOfTick(current_tick)


\* A Set or handle write has just overwritten a slot created in this tick.
C8_Witness ==
    /\ last_op.kind = "overwrite"
    /\ chunk_idx(last_op.index) \in Leaf(st.rollback, last_op.index).created_mask

C11_BeyondWindow ==
    [][(rollbacks' = rollbacks + 1 /\ current_tick' + 1 < OldestTick(st))
           => (st' = st /\ current_tick' = current_tick)]_vars

\* C12: a Spawn that follows a Rollback returns an entity whose generation is
\* strictly greater than the generation of every entity the storage holds
\* after that rollback.
C12_GenerationRestored ==
    [][(last_op.kind = "rollback" /\ last_op'.kind = "spawn")
           => \A i \in idxs :
                 Present(st, i) =>
                     LET a == get(st, i)[2]
                         b == last_op'.entity[2]
                     IN  \/ a[3] < b[3]
                         \/ a[3] = b[3] /\ a[2] < b[2]
                         \/ a[3] = b[3] /\ a[2] = b[2] /\ a[1] < b[1]]_vars

\* C13: with no Rollback so far, the entity a Spawn returns differs from every
\* entity Spawn returned before: two entities issued for the same index have
\* different generations.
C13_DistinctGenerations ==
    [][(last_op'.kind = "spawn" /\ rollbacks' = 0)
           => last_op'.entity \notin issued]_vars

\* C14: no entity Spawn has returned has the generation field 0; none is the
\* all-zero Entity::none().
C14_NeverZero ==
    [][last_op'.kind = "spawn"
           => (last_op'.entity[2] # <<0, 0, 0>>
                   /\ last_op'.entity # entity_new(0, NoGeneration))]_vars

\* C15: the index of the entity a Spawn returns was absent before the Spawn,
\* every lower index was present, and after the Spawn the slot at that index
\* holds the entity.
C15_LowestAbsent ==
    [][last_op'.kind = "spawn"
           => (/\ ~remove_finds(st, last_op'.index)
               /\ \A j \in 0 .. (last_op'.index - 1) : remove_finds(st, j)
               /\ get(st', last_op'.index) = last_op'.entity)]_vars

\* A Spawn has just taken slot 0 again, which an earlier entity held and left,
\* while slot 1 is held and slot 2 has never been used.
C15_Witness ==
    /\ last_op.kind = "spawn"
    /\ last_op.index = 0
    /\ \E e \in issued : e[1] = 0 /\ e # last_op.entity
    /\ remove_finds(st, 1)
    /\ st.count = 2

\* C16: a Spawn on a storage whose 64 * 64 * 64 slots are all occupied returns
\* no entity, issues none, and leaves every slot, mask and count as it was.
C16_NoFreeSlot ==
    [][(st.count = W * PageSlots /\ last_op'.kind \in {"spawn", "spawn_none"})
           => (/\ last_op'.kind = "spawn_none"
               /\ last_op'.entity = Uninit
               /\ issued' = issued
               /\ Snapshot(st') = Snapshot(st))]_vars

\* A Spawn has just returned None on the full storage.
C16_Witness ==
    /\ last_op.kind = "spawn_none"
    /\ st.count = W * PageSlots
    /\ st.fullness_mask = FullMask

\* C17: no two systems of one wavefront share a component type that one of
\* them writes.
C17_ConflictFree ==
    \A k \in 1 .. Len(sched.wavefronts) :
        \A a \in sched.wavefronts[k], b \in sched.wavefronts[k] :
            a # b => ~has_conflict(sched.systems, a, b)

C19_WriterBeforeReader ==
    (sched.wavefronts # <<>>
         /\ ~HasCycle(dependency_graph(sched.systems), Len(sched.systems)))
        => \A w \in 1 .. Len(sched.systems), r \in 1 .. Len(sched.systems) :
              (/\ w # r
               /\ sched.systems[w].writes \cap sched.systems[r].reads # {}
               /\ <<r, w>> \notin group_edges(sched.systems))
                  => WaveOf(w) < WaveOf(r)

\* Wavefronts are built for an acyclic graph of three systems with a writer
\* and two readers of one type, one of the readers added before the writer.
C19_Witness ==
    /\ sched.wavefronts # <<>>
    /\ ~HasCycle(dependency_graph(sched.systems), Len(sched.systems))
    /\ Len(sched.systems) = 3
    /\ "X" \in sched.systems[1].reads
    /\ "X" \in sched.systems[2].writes
    /\ "X" \in sched.systems[3].reads
    /\ group_edges(sched.systems) = {}

C21_GroupPrecedence ==
    sched.wavefronts # <<>>
        => \A x \in 1 .. Len(sched.systems), y \in 1 .. Len(sched.systems) :
              (/\ <<x, y>> \in group_edges(sched.systems)
               /\ \/ sched.systems[y].writes \cap sched.systems[x].reads # {}
                  \/ \E t \in sched.systems[y].writes \cap sched.systems[x].writes :
                        /\ y < x
                        /\ \A k \in (y + 1) .. (x - 1) : t \notin sched.systems[k].writes)
                  => (/\ <<y, x>> \notin dependency_graph(sched.systems)
                      /\ WaveOf(x) < WaveOf(y))

\* C22: build_wavefronts returns wavefronts for every set of systems: every
\* system is in exactly one wavefront, none of them empty; where the graph has a cycle,
\* the systems on a cycle or after one are together the last wavefront, and
\* the edges between the systems of the wavefronts before it are respected.
C22_CycleLastWavefront ==
    sched.wavefronts # <<>>
        => LET n == Len(sched.systems)
               edges == dependency_graph(sched.systems)
               waves == sched.wavefronts
               stuck == UNION {C \in SUBSET (1 .. n) :
                                  \A v \in C : \E u \in C : <<u, v>> \in edges}
           IN  /\ UNION {waves[k] : k \in 1 .. Len(waves)} = 1 .. n
               /\ \A k \in 1 .. Len(waves) : waves[k] # {}
               /\ \A j \in 1 .. Len(waves), k \in 1 .. Len(waves) :
                      j # k => waves[j] \cap waves[k] = {}
               /\ stuck # {} => waves[Len(waves)] = stuck
               /\ \A e \in edges :
                      e[2] \notin stuck
                          => \E j \in 1 .. Len(waves), k \in 1 .. Len(waves) :
                                j < k /\ e[1] \in waves[j] /\ e[2] \in waves[k]

\* Wavefronts are built for three systems of which two are on a cycle and one
\* is not: the last of two wavefronts holds the cycle.
C22_Witness ==
    /\ Len(sched.systems) = 3
    /\ Len(sched.wavefronts) = 2
    /\ HasCycle(dependency_graph(sched.systems), 3)
    /\ Cardinality(sched.wavefronts[2]) = 2

C24_FirstWriteWins ==
    /\ \A i \in idxs :
          (pat[i] = "write" /\ last_op.kind # "rollback")
              => /\ st.rollback.tick = current_tick
                 /\ chunk_idx(i) \in Leaf(st.rollback, i).changed_mask
                 /\ Leaf(st.rollback, i).data[chunk_idx(i)] = StartValue(current_tick, i)
    /\ (last_op.kind = "rollback" /\ last_op.from_tick = current_tick + 1)
          => \A i \in idxs :
                last_op.pat[i] = "write" => get(st, i) = EndOfTick(current_tick).values[i]

\* C25: a Set with an index of 64^3 or more returns an error to its caller: it
\* does not panic.
C25_OutOfRangeError == last_op.kind # "panic"

\* C26: a Remove that finds no value, the slot being absent or the index 64^3
\* or more, leaves the storage as it was: masks, counts, values, the open
\* journal and its tick, and the sealed journals.
C26_RemoveAbsent == [][last_op'.kind = "absent" => st' = st]_vars

\* A Remove with the index 64^3 has returned false in a tick after the one of
\* the open journal, the storage holding a value.
C26_Witness ==
    /\ last_op.kind = "absent"
    /\ last_op.index = W * PageSlots
    /\ st.count > 0
    /\ st.rollback.tick < current_tick

C28_EmptyNodesReleased ==
    [][\A i \in idxs :
          (remove_finds(st, i) /\ st' = collect_dead(remove(st, current_tick, i)))
              => LET si == storage_idx(i)
                     pi == page_idx(i)
                     pptr == st.data[si]
                     cptr == st.pages[pptr].data[pi]
                     last_of_chunk == st.chunks[cptr].presence_mask = {chunk_idx(i)}
                     last_of_page == last_of_chunk /\ st.pages[pptr].presence_mask = {pi}
                 IN  /\ last_of_chunk
                           => /\ ~PoolHas(st'.chunk_pool, cptr)
                              /\ cptr \in DOMAIN st'.chunks => ~st'.chunks[cptr].live
                              /\ pi \notin st'.pages[st'.data[si]].presence_mask
                              /\ st'.pages[st'.data[si]].data[pi] = DefaultPtr
                     /\ (last_of_chunk /\ ~last_of_page)
                           => /\ st'.data[si] = pptr
                              /\ si \in st'.presence_mask
                     /\ last_of_page
                           => /\ ~PoolHas(st'.page_pool, pptr)
                              /\ pptr \notin DOMAIN st'.pages
                              /\ si \notin st'.presence_mask
                              /\ st'.data[si] = DefaultPtr]_vars

\* Removes have emptied the chunk of slot 0, whose page still holds slot 65,
\* and the only chunk of the page of slot 4160.
C28_Witness ==
    /\ pat[0] \in {"rm", "set_rm"}
    /\ pat[4160] \in {"rm", "set_rm"}
    /\ get(st, 65) # Uninit
    /\ st.pages[st.data[0]].data[0] = DefaultPtr
    /\ st.pages[st.data[0]].presence_mask = {1}
    /\ st.data[1] = DefaultPtr
    /\ st.presence_mask = {0}

\* C29: ClearChangedMasks leaves no bit in the changed mask of the storage, of
\* any page or of any chunk of the tree, and leaves presence and fullness
\* masks, counts, values and the journals as they were.
C29_AllChangedCleared ==
    [][st' = clear_changed_masks(st)
          => /\ st'.changed_mask = {}
             /\ \A q \in DOMAIN st'.pages : st'.pages[q].changed_mask = {}
             /\ \A c \in DOMAIN st'.chunks :
                   st'.chunks[c].live => st'.chunks[c].changed_mask = {}
             /\ Snapshot(st') = Snapshot(st)
             /\ st'.rollback = st.rollback
             /\ st'.prev = st.prev]_vars

\* ClearChangedMasks has cleared the changed masks of a storage that holds
\* values in two pages, the open journal keeping the diffs of both.
C29_Witness ==
    /\ st.changed_mask = {}
    /\ st.presence_mask = {0, 1}
    /\ st.pages[st.data[0]].presence_mask = {0, 1}
    /\ st.rollback.changed_mask = {0, 1}

\* C30: VerifyInvariants returns true only for a storage whose tree satisfies
\* I1-I5 at the storage, at every page and at every chunk.
C30_VerifyDetects == verify_invariants(st) => TreeInvariants(st)

\* C31: a storage holds at most 64 sealed journals; an operation other than a
\* Rollback changes the deque only where the open journal's tick differs from
\* the operation's tick, and then appends the open journal and, where the
\* deque held 64, drops the oldest.
C31_DequeBounded ==
    /\ [](Len(st.prev) <= PrevCap)
    /\ [][(last_op'.kind # "rollback" /\ st'.prev # st.prev)
             => /\ st.rollback.tick # current_tick
                /\ st'.rollback.tick = current_tick
                /\ st'.prev = (IF Len(st.prev) = PrevCap THEN Tail(st.prev)
                               ELSE st.prev) \o <<st.rollback>>]_vars

\* A Set or Remove in a new tick has rotated a full deque: it holds the
\* journals of the 64 ticks before the current one.
C31_Witness ==
    /\ Len(st.prev) = PrevCap
    /\ st.rollback.tick = current_tick
    /\ st.prev[PrevCap].tick = current_tick - 1
    /\ st.prev[1].tick = current_tick - PrevCap
    /\ current_tick > BeyondMax
    /\ rollbacks = 0

\* C32: after the cleanup system for T has run no slot holds both T and
\* Destroyed, and every T value at a slot without Destroyed is still present
\* and unchanged.
C32_CleanupExact ==
    [][last_op'.kind = "cleanup"
          => \A i \in AllIndices :
                /\ ~(Present(st', i) /\ Present(other', i))
                /\ (Present(st, i) /\ ~Present(other, i))
                      => get(st', i) = get(st, i)]_vars

\* C38: every T value the cleanup system removes, untouched so far in the tick
\* of the cleanup, is recorded as removed with its old value in the journal of
\* that tick.
C38_CleanupJournaled ==
    [][last_op'.kind = "cleanup"
          => \A i \in last_op'.visited :
                pat[i] = "none"
                    => /\ st'.rollback.tick = current_tick
                       /\ chunk_idx(i) \in Leaf(st'.rollback, i).removed_mask
                       /\ Leaf(st'.rollback, i).data[chunk_idx(i)] = get(st, i)]_vars

\* C39: after the cleanup system has run the T storage satisfies I1-I5.
C39_CleanupInvariants ==
    last_op.kind = "cleanup" => TreeInvariants(st)

\* C33: during one Rollback each slot's restored value is cloned at most once
\* and the value the slot holds is dropped at most once.
C33_OneCloneOneDrop ==
    [][last_op'.kind = "rollback"
          => \A i \in idxs :
                /\ rollback_slot_ops(st, current_tick', i).clones <= 1
                /\ rollback_slot_ops(st, current_tick', i).drops <= 1]_vars

\* C34: after any Set, Remove, Spawn or Rollback a page's child pointer at
\* position p is the sentinel iff presence bit p is clear, every other pointer
\* refers to a live chunk of the pool owned by that position, and no chunk is
\* referenced from two positions.
C34_PointersOwned ==
    LET positions == {sp \in SIdx \X PIdx : sp[1] \in st.presence_mask}
        ptr(sp) == PageAt(st, sp[1]).data[sp[2]]
    IN  /\ \A sp \in positions :
              /\ ptr(sp) = DefaultPtr <=> sp[2] \notin PageAt(st, sp[1]).presence_mask
              /\ ptr(sp) # DefaultPtr
                    => /\ ptr(sp) \in DOMAIN st.chunks
                       /\ st.chunks[ptr(sp)].live
                       /\ PoolHas(st.chunk_pool, ptr(sp))
                       /\ st.chunks[ptr(sp)].owner_index = sp[2]
        /\ \A sp, sq \in positions :
              (sp # sq /\ ptr(sp) # DefaultPtr) => ptr(sp) # ptr(sq)

\* C35: for a zero-sized component type the first Rollback(target) leaves each
\* slot present iff it was present at the end of the target tick.
C35_ZstPresence ==
    (last_op.kind = "rollback" /\ rollbacks = 1)
        => \A i \in idxs :
              remove_finds(st, i)
                  <=> chunk_idx(i) \in
                          EndOfTick(current_tick).pages[storage_idx(i)]
                              .chunks[page_idx(i)].presence_mask

\* C36: a Spawn that returns no entity because the Entity storage is saturated
\* leaves the generation counter, the tree and the journals as they were.
C36_FailedSpawnInert ==
    [][last_op'.kind = "spawn_none"
          => /\ st'.generation = st.generation
             /\ Snapshot(st') = Snapshot(st)
             /\ st'.rollback = st.rollback
             /\ st'.prev = st.prev]_vars

\* C37: for any set of systems, with or without cycles, build_wavefronts puts
\* every system in exactly one wavefront and leaves no wavefront empty.
C37_EverySystemOnce ==
    LET waves == sched.wavefronts
        n == Len(sched.systems)
    IN  waves # <<>>
            => /\ \A i \in 1 .. n :
                     Cardinality({k \in 1 .. Len(waves) : i \in waves[k]}) = 1
               /\ \A k \in 1 .. Len(waves) :
                     waves[k] # {} /\ waves[k] \subseteq 1 .. n

\* Wavefronts are built for three systems, one of them ahead of a cycle of the
\* other two that is entered only after it.
C37_Witness ==
    /\ Len(sched.systems) = 3
    /\ HasCycle(dependency_graph(sched.systems), 3)
    /\ Len(sched.wavefronts) = 2
    /\ Cardinality(sched.wavefronts[1]) = 1
    /\ \E e \in dependency_graph(sched.systems) :
          e[1] \in sched.wavefronts[1] /\ e[2] \in sched.wavefronts[2]

\* C40: when a query run that writes through a mutable handle returns, every
\* slot whose leaf changed bit is set has the changed bit of its chunk set in
\* its page and the changed bit of its page set in the storage.
C40_ChangedPropagated ==
    [][Write
          => \A i \in idxs :
                (/\ remove_finds(st', i)
                 /\ chunk_idx(i) \in
                        ChunkAt(st', storage_idx(i), page_idx(i)).changed_mask)
                    => /\ page_idx(i) \in PageAt(st', storage_idx(i)).changed_mask
                       /\ storage_idx(i) \in st'.changed_mask]_vars

\* Slot 0, untouched before in this tick, has been written through a mutable
\* handle after the changed masks were cleared: it alone has a leaf changed
\* bit, and the page and the storage carry the summary bits.
C40_Witness ==
    /\ pat[0] = "write"
    /\ remove_finds(st, 0) /\ remove_finds(st, 1)
    /\ ChunkAt(st, 0, 0).changed_mask = {0}
    /\ Leaf(st.rollback, 0).changed_mask = {0}
    /\ PageAt(st, 0).changed_mask = {0}
    /\ st.changed_mask = {0}

====
